---------------------------- MODULE Spec2Model ----------------------------
(***************************************************************************)
(* Model of the bulk job scheduler of schemaspark-ai                       *)
(* (backend/src/services/bulkProcessingService.ts) together with the       *)
(* per-URL processor it calls (AISchemaService.generateSchema).            *)
(*                                                                         *)
(* Atomicity follows the JavaScript event loop: one action is one          *)
(* run-to-completion step.  startJob runs processJob synchronously up to   *)
(* its first await, so it dispatches the whole first batch; the resolution *)
(* of the last call of a batch runs the continuation of Promise.all in the *)
(* same microtask drain, so it either starts the inter-batch sleep,        *)
(* dispatches the next batch or finishes the job.                          *)
(***************************************************************************)
EXTENDS Integers, Sequences, FiniteSets, TLC

\* ------------------------------------------------------------------ bounds
MaxUrlLen == 3        \* characters of a raw URL string (SpecCreate)
MaxListLen == 3       \* raw URLs of one submitted list (SpecCreate)
MaxJobs == 1          \* jobs created in one behaviour of Spec
MaxPool == 5          \* raw URLs of the longest list submitted in Spec
MaxConcurrencyInput == 2  \* largest options.maxConcurrency submitted in Spec
MaxStamp == 2         \* distinct instants stamped into one job's completedAt

\* ------------------------------------------------------- program constants
maxConcurrentJobs == 5
maxUrlsPerJob == 100
maxActiveUserJobs == 3
defaultMaxConcurrency == 3
defaultDelayBetweenRequests == 1000

Users == {"u1", "u2"}

Unset == 0            \* an optional Date field that was never assigned
Absent == -1          \* a key missing from the Partial<BulkProcessingOptions>

\* ----------------------------------------------------------- URL strings
(***************************************************************************)
(* A raw URL string is a sequence of characters.  The alphabet is a few    *)
(* ASCII-letter runs (each standing for itself), ':', '/' and the space.   *)
(***************************************************************************)
Chars == {"http", "https", "HTTP", "x", ":", "/", " "}

IsAlpha(c) == c \in {"http", "https", "HTTP", "x"}

ToLower(c) == IF c = "HTTP" THEN "http" ELSE c

RECURSIVE StripLeading(_)
StripLeading(s) ==
    IF s # << >> /\ Head(s) = " " THEN StripLeading(Tail(s)) ELSE s

RECURSIVE StripTrailing(_)
StripTrailing(s) ==
    IF s # << >> /\ s[Len(s)] = " "
    THEN StripTrailing(SubSeq(s, 1, Len(s) - 1))
    ELSE s

\* index of the first occurrence of character c in s, or Len(s) + 1
RECURSIVE IndexOf(_, _, _)
IndexOf(s, c, i) ==
    IF i > Len(s) THEN i
    ELSE IF s[i] = c THEN i
    ELSE IndexOf(s, c, i + 1)

SkipSlashes(s) ==
    LET RECURSIVE skip(_)
        skip(t) == IF t # << >> /\ Head(t) = "/" THEN skip(Tail(t)) ELSE t
    IN skip(s)

\* host[:port] of an authority; no digit is in the alphabet, so a port that
\* is present must be empty to be valid
HostOk(auth, emptyAllowed) ==
    LET colon == IndexOf(auth, ":", 1)
        host  == SubSeq(auth, 1, colon - 1)
        port  == SubSeq(auth, colon + 1, Len(auth))
    IN /\ (emptyAllowed /\ colon > Len(auth)) \/ host # << >>
       /\ \A i \in 1..Len(host) : IsAlpha(host[i])
       /\ port = << >>

ParseFailure == [ok |-> FALSE, protocol |-> << >>]

(***************************************************************************)
(* new URL(url) without a base: strip leading and trailing spaces; the     *)
(* scheme is a run of letters ended by ':' (anything else: no scheme,      *)
(* TypeError); the scheme is lower-cased; for the special schemes http and *)
(* https every following slash is skipped and the host up to the next '/'  *)
(* must be non-empty and valid; another scheme takes an authority only     *)
(* after "//".                                                             *)
(***************************************************************************)
URL(url) ==
    LET s      == StripTrailing(StripLeading(url))
        colon  == IndexOf(s, ":", 1)
        scheme == [i \in 1..(colon - 1) |-> ToLower(s[i])]
        rest   == SubSeq(s, colon + 1, Len(s))
        special == scheme \in {<<"http">>, <<"https">>}
        after  == SkipSlashes(rest)
        auth   == SubSeq(after, 1, IndexOf(after, "/", 1) - 1)
        opaque == SubSeq(rest, 3, IndexOf(rest, "/", 3) - 1)
    IN IF colon > Len(s) \/ colon = 1 THEN ParseFailure
       ELSE IF \E i \in 1..(colon - 1) : ~IsAlpha(s[i]) THEN ParseFailure
       ELSE IF special
            THEN IF HostOk(auth, FALSE)
                 THEN [ok |-> TRUE, protocol |-> scheme \o <<":">>]
                 ELSE ParseFailure
       ELSE IF Len(rest) >= 2 /\ rest[1] = "/" /\ rest[2] = "/"
                              /\ ~HostOk(opaque, TRUE)
            THEN ParseFailure
       ELSE [ok |-> TRUE, protocol |-> scheme \o <<":">>]

\* a plausible slip: the protocol test forgets plain http
AcceptedHttpsOnly(url) ==
    LET urlObj == URL(url)
    IN urlObj.ok /\ urlObj.protocol \in {<<"https", ":">>}

\* new URL(url) succeeds and its protocol is http: or https: (lines 373-374)
Accepted(url) ==
    LET urlObj == URL(url)
    IN urlObj.ok /\ urlObj.protocol \in {<<"http", ":">>, <<"https", ":">>}

(***************************************************************************)
(* validateAndFilterUrls: the loop of lines 371-381 visits the input in    *)
(* order and pushes each accepted URL string as it was given, so validUrls *)
(* lists the accepted positions of the input in increasing order.          *)
(***************************************************************************)
validateAndFilterUrls(urls) ==
    LET pushed == {i \in 1..Len(urls) : Accepted(urls[i])}
        nth(k) == CHOOSE i \in pushed : Cardinality({j \in pushed : j <= i}) = k
    IN [k \in 1..Cardinality(pushed) |-> urls[nth(k)]]

\* a plausible slip: the slices are taken one element too long
RECURSIVE chunkArrayOffByOne(_, _)
chunkArrayOffByOne(array, chunkSize) ==
    IF array = << >> THEN << >>
    ELSE IF Len(array) <= chunkSize + 1 THEN <<array>>
    ELSE <<SubSeq(array, 1, chunkSize + 1)>>
            \o chunkArrayOffByOne(SubSeq(array, chunkSize + 2, Len(array)), chunkSize)

\* chunkArray: contiguous slices of chunkSize elements, the last one shorter
RECURSIVE chunkArray(_, _)
chunkArray(array, chunkSize) ==
    IF array = << >> THEN << >>
    ELSE IF Len(array) <= chunkSize THEN <<array>>
    ELSE <<SubSeq(array, 1, chunkSize)>>
            \o chunkArray(SubSeq(array, chunkSize + 1, Len(array)), chunkSize)

\* ------------------------------------------------------------------- state
VARIABLES
    jobs,        \* keys of the Map this.jobs
    job,         \* the job objects ever created, by id (creation order)
    activeJobs,  \* this.activeJobs
    proc,        \* per job: where its processJob invocation stands
    cutoffDate,  \* Date.now() - 7 days, on the scale of job[i].createdAt
    request,     \* the request body handed to createJob (SpecCreate)
    ret,         \* what the last step reported: the error a call threw, the
                 \* failure of the external processor, or a cancelJob call
                 \* that returned; NoCall after any other step
    autosaveStates,  \* the documents of the AutosaveState collection
    project,     \* the documents of the Project collection, by project id
    handlers,    \* the request and socket handlers suspended at an await
    started,     \* how many write handlers have been started
    now,         \* Date.now(), in hours
    res,         \* what the last step of the autosave subsystem answered
    assigned,    \* per project: the version numbers addDraftVersion assigned
    users,       \* the documents of the User collection, by email
    registrationAttempts,  \* global.registrationAttempts of the one client IP
    failures,    \* per email: failed logins answered since the last success,
                 \* counted up to maxLoginAttempts
    clock,       \* Date.now() of the account routes, in minutes
    authRes,     \* what the last register or login request was answered
    socket,      \* per connection: connected, user, projectId and its rooms
    sockHandlers,  \* the socket event handlers suspended at an await
    sockEvents,  \* how many socket events were dispatched to handlers
    emitted      \* the events the last step emitted, in order

schedulerVars == <<jobs, job, activeJobs, proc, cutoffDate, request, ret>>

storeVars == <<autosaveStates, project, handlers, started, now, res, assigned>>

authVars == <<users, registrationAttempts, failures, clock, authRes>>

realtimeVars == <<socket, sockHandlers, sockEvents, emitted>>

vars == <<schedulerVars, storeVars, authVars, realtimeVars>>

Terminal == {"completed", "failed", "cancelled"}

NoCall == [op |-> "none", jobId |-> 0, userId |-> "", arg |-> 0, error |-> ""]

NoRequest == [userId |-> "", urls |-> << >>]

Outcome(op, jobId, userId, arg, error) ==
    [op |-> op, jobId |-> jobId, userId |-> userId, arg |-> arg, error |-> error]

Failure(op, jobId, userId, arg, error) ==
    IF error = "" THEN NoCall ELSE Outcome(op, jobId, userId, arg, error)

\* processJob has not been invoked for a job that was never started
\* (dispatched, extFailed, refused and emitted record history: the positions
\* handed to the processor, those it failed for, whether startJob was once
\* refused for capacity, and how many events of each kind were emitted)
NoEvents == [jobCancelled |-> 0, jobCompleted |-> 0, urlProcessed |-> 0, urlFailed |-> 0]

NoProc == [pc |-> "none", batch |-> 0, pending |-> {}, dispatched |-> {},
           extFailed |-> {}, refused |-> FALSE, emitted |-> NoEvents]

\* ------------------------------ the autosave store and the draft history
(***************************************************************************)
(* The AutosaveState and Project collections live in MongoDB.  A handler   *)
(* runs synchronously up to each await; what it awaits is one database     *)
(* command, which the server executes atomically on one document at some   *)
(* later moment.  Commands of different handlers are executed in any       *)
(* order.                                                                  *)
(***************************************************************************)
Projects == {"p1"}

Contents == {"c1", "c2", "c3", "c4", "c5"}

\* every write carries a draft of its own: the k-th handler sends the k-th
ContentOf(k) == <<"c1", "c2", "c3", "c4", "c5">>[k]

NoToken == "undefined"

NoContent == "undefined"

\* currentDraft of a project that has none
NoDraft == [content |-> NoContent, version |-> 0, createdAt |-> 0,
            updatedAt |-> 0, tags |-> << >>]

\* a project document before its first draft (v is the version key __v)
NewProject(ownerID) ==
    [ownerID |-> ownerID, status |-> "draft", currentDraft |-> NoDraft,
     draftHistory |-> << >>, v |-> 0, isModified |-> FALSE]

\* Project.findOne found nothing
NoProject == [ownerID |-> "", status |-> "", currentDraft |-> NoDraft,
              draftHistory |-> << >>, v |-> 0, isModified |-> FALSE]

\* AutosaveState.findOne found nothing
NoState == [id |-> 0, projectID |-> "", ownerID |-> "", draftContent |-> NoContent,
            version |-> 0, lastSavedAt |-> 0, isRecoverable |-> TRUE,
            recoveryToken |-> NoToken]

NoResponse == [op |-> "none", userId |-> "", projectId |-> "", status |-> 0,
               draftContent |-> NoContent, version |-> 0, unhandled |-> FALSE]

StoreInit ==
    /\ autosaveStates = {}
    /\ project = [p \in Projects |-> NewProject("u1")]
    /\ handlers = {}
    /\ started = 0
    /\ now = 0
    /\ res = NoResponse
    /\ assigned = [p \in Projects |-> << >>]

\* ------------------------------------------------- accounts and sockets
Emails == {"a@x.io", "b@x.io"}

\* an optional Date field of a user that is not set
NoDate == Absent

\* User.findOne found nothing
NoUser == [email |-> "", passwordHash |-> << >>, role |-> "", isActive |-> FALSE,
           loginAttempts |-> 0, lockoutUntil |-> NoDate, lastLoginAt |-> NoDate]

NoAuthResponse == [op |-> "none", email |-> "", status |-> 0, attemptsLeft |-> 0,
                   unhandled |-> FALSE]

AuthInit ==
    /\ users = [e \in Emails |-> NoUser]
    /\ registrationAttempts = << >>
    /\ failures = [e \in Emails |-> 0]
    /\ clock = 0
    /\ authRes = NoAuthResponse

Conns == {"s1", "s2"}

\* socket.projectId of a connection that joined no project
NoProjectId == "undefined"

NoSocket == [connected |-> FALSE, user |-> "", projectId |-> NoProjectId, rooms |-> {}]

RealtimeInit ==
    /\ socket = [c \in Conns |-> NoSocket]
    /\ sockHandlers = {}
    /\ sockEvents = 0
    /\ emitted = << >>

Init ==
    /\ jobs = {}
    /\ job = << >>
    /\ activeJobs = {}
    /\ proc = << >>
    /\ cutoffDate = 1
    /\ request = NoRequest
    /\ ret = NoCall
    /\ StoreInit
    /\ AuthInit
    /\ RealtimeInit

\* ----------------------------------------------------------------- createJob
defaultOptions ==
    [maxConcurrency |-> defaultMaxConcurrency,
     delayBetweenRequests |-> defaultDelayBetweenRequests]

\* { ...defaultOptions, ...options }
jobOptions(options) ==
    [k \in DOMAIN defaultOptions |->
        IF options[k] = Absent THEN defaultOptions[k] ELSE options[k]]

\* a plausible slip: only the running jobs count against the quota
activeUserJobsProcessingOnly(userId) ==
    {j \in jobs : job[j].userId = userId /\ job[j].status \in {"processing"}}

activeUserJobs(userId) ==
    {j \in jobs : job[j].userId = userId /\ job[j].status \in {"pending", "processing"}}

\* the error createJob throws, "" when it throws none
createJobError(userId, urls) ==
    LET validUrls == validateAndFilterUrls(urls)
    IN IF Len(validUrls) = 0 THEN "No valid URLs provided"
       ELSE IF Len(validUrls) > maxUrlsPerJob THEN "Too many URLs"
       ELSE IF Cardinality(activeUserJobs(userId)) >= maxActiveUserJobs
            THEN "Too many active jobs"
       ELSE ""

NewJob(userId, urls, options) ==
    LET validUrls == validateAndFilterUrls(urls)
    IN [userId |-> userId,
        urls |-> validUrls,
        status |-> "pending",
        progress |-> [total |-> Len(validUrls), completed |-> 0,
                      failed |-> 0, current |-> 0],
        results |-> << >>,
        createdAt |-> Len(job) + 1,
        startedAt |-> Unset,
        completedAt |-> Unset,
        options |-> jobOptions(options)]

CreateJob(userId, urls, options) ==
    LET error == createJobError(userId, urls)
        id    == Len(job) + 1
    IN /\ ret' = Failure("createJob", 0, userId, Len(urls), error)
       /\ IF error = ""
          THEN /\ job' = Append(job, NewJob(userId, urls, options))
               /\ proc' = Append(proc, NoProc)
               /\ jobs' = jobs \cup {id}
          ELSE UNCHANGED <<job, proc, jobs>>
       /\ UNCHANGED <<activeJobs, cutoffDate, request, storeVars, authVars, realtimeVars>>

\* ------------------------------------------------- the per-URL processor
ExtOutcomes == {"ok", "scrapeError", "aiError"}

(***************************************************************************)
(* AISchemaService.generateSchema: extractContentForSchema or the          *)
(* DeepSeek calls throw on failure, and the catch of lines 116-128 turns   *)
(* every throw into a resolved response { success: false, error }.         *)
(***************************************************************************)
generateSchema(ext) ==
    IF ext = "ok"
    THEN [rejected |-> FALSE, success |-> TRUE, schema |-> "schema", error |-> "undefined"]
    ELSE [rejected |-> FALSE, success |-> FALSE, schema |-> "undefined", error |-> ext]

\* ---------------------------------------------------------------- processJob
batches(jr) == chunkArray(jr.urls, jr.options.maxConcurrency)

RECURSIVE SumLen(_, _)
SumLen(bs, n) == IF n = 0 THEN 0 ELSE Len(bs[n]) + SumLen(bs, n - 1)

\* the positions in job.urls (1-based) of the URLs of batch b
BatchPositions(jr, b) ==
    LET before == SumLen(batches(jr), b - 1)
    IN (before + 1)..(before + Len(batches(jr)[b]))

\* lines 272-273 run for index 0 .. n-1 of one batch, synchronously
RECURSIVE currentAfter(_, _, _)
currentAfter(current, index, n) ==
    IF index >= n THEN current
    ELSE currentAfter(current + index, index + 1, n)

\* new Date() for completedAt: an instant later than the one stored before
NewDate(old) == old + 1

\* a plausible slip: the end of processJob forgets this.activeJobs.delete
FinishKeepsActive(id, jr, pr, active) ==
    [job |-> [jr EXCEPT !.status = IF jr.progress.failed > 0 /\ jr.progress.completed = 0
                                   THEN "failed" ELSE "completed",
                        !.completedAt = NewDate(jr.completedAt)],
     proc |-> [pr EXCEPT !.pc = "done", !.emitted.jobCompleted = @ + 1],
     active |-> active]

\* lines 332-337: the end of processJob
Finish(id, jr, pr, active) ==
    [job |-> [jr EXCEPT !.status = IF jr.progress.failed > 0 /\ jr.progress.completed = 0
                                   THEN "failed" ELSE "completed",
                        !.completedAt = NewDate(jr.completedAt)],
     proc |-> [pr EXCEPT !.pc = "done", !.emitted.jobCompleted = @ + 1],
     active |-> active \ {id}]

RECURSIVE LoopHead(_, _, _, _, _)

\* lines 324-329: Promise.all of batch b has resolved
AfterBatch(id, jr, pr, active, b) ==
    IF jr.options.delayBetweenRequests > 0 /\ b < Len(batches(jr))
    THEN [job |-> jr, proc |-> [pr EXCEPT !.pc = "delay", !.batch = b], active |-> active]
    ELSE LoopHead(id, jr, pr, active, b + 1)

(***************************************************************************)
(* lines 271-288: batch.map runs every callback of batch b up to its first *)
(* await.  Each sets progress.current (lines 272-273) and tests the status *)
(* (line 277): on a cancelled job it returns without calling the           *)
(* processor, so Promise.all resolves with nothing in flight; otherwise    *)
(* generateSchema is called and the callback waits for it.                 *)
(***************************************************************************)
Dispatch(id, jr, pr, active, b) ==
    LET moved == [jr EXCEPT !.progress.current =
                      currentAfter(jr.progress.current, 0, Len(batches(jr)[b]))]
    IN IF jr.status = "cancelled"
       THEN AfterBatch(id, moved, pr, active, b)
       ELSE [job |-> moved,
             proc |-> [pr EXCEPT !.pc = "awaiting", !.batch = b,
                                 !.pending = pr.pending \cup BatchPositions(jr, b),
                                 !.dispatched = pr.dispatched \cup BatchPositions(jr, b)],
             active |-> active]

\* a plausible slip: the loop head forgets the cancellation check and leaves
\* it to the callbacks (line 277)
LoopHeadNoCancelCheck(id, jr, pr, active, b) ==
    IF b > Len(batches(jr))
    THEN Finish(id, jr, pr, active)
    ELSE Dispatch(id, jr, pr, active, b)

\* a plausible slip: the loop bound is one short and the last batch is skipped
LoopHeadSkipsLast(id, jr, pr, active, b) ==
    IF b >= Len(batches(jr)) \/ jr.status = "cancelled"
    THEN Finish(id, jr, pr, active)
    ELSE Dispatch(id, jr, pr, active, b)

\* lines 266-269: the head of the for loop, about to take batch b
LoopHead(id, jr, pr, active, b) ==
    IF b > Len(batches(jr)) \/ jr.status = "cancelled"
    THEN Finish(id, jr, pr, active)
    ELSE Dispatch(id, jr, pr, active, b)

\* a plausible slip: the success path counts the URL and forgets results.push
UrlCallbackNoPush(jr, url, response) ==
    IF ~response.rejected
    THEN [jr EXCEPT !.progress.completed = @ + 1]
    ELSE [jr EXCEPT !.results = Append(@, [url |-> url, status |-> "failed",
                                           schema |-> "undefined",
                                           error |-> response.error]),
                    !.progress.failed = @ + 1]

\* a plausible slip: the callback tests the cancellation again after the await
\* and drops the outcome of a job that was cancelled meanwhile
UrlCallbackDropsCancelled(jr, url, response) ==
    IF jr.status = "cancelled" THEN jr
    ELSE IF ~response.rejected
    THEN [jr EXCEPT !.results = Append(@, [url |-> url, status |-> "success",
                                           schema |-> response.schema,
                                           error |-> "undefined"]),
                    !.progress.completed = @ + 1]
    ELSE [jr EXCEPT !.results = Append(@, [url |-> url, status |-> "failed",
                                           schema |-> "undefined",
                                           error |-> response.error]),
                    !.progress.failed = @ + 1]

\* lines 290-320: the rest of the callback of one URL once generateSchema settled
UrlCallback(jr, url, response) ==
    IF ~response.rejected
    THEN [jr EXCEPT !.results = Append(@, [url |-> url, status |-> "success",
                                           schema |-> response.schema,
                                           error |-> "undefined"]),
                    !.progress.completed = @ + 1]
    ELSE [jr EXCEPT !.results = Append(@, [url |-> url, status |-> "failed",
                                           schema |-> "undefined",
                                           error |-> response.error]),
                    !.progress.failed = @ + 1]

\* lines 304 and 319: the event the callback emits
UrlEvent(pr, response) ==
    IF ~response.rejected
    THEN [pr EXCEPT !.emitted.urlProcessed = @ + 1]
    ELSE [pr EXCEPT !.emitted.urlFailed = @ + 1]

\* a plausible slip: Promise.race in place of Promise.all
RaceSettled(pr) == TRUE

\* line 324: Promise.all resolves once every callback of the batch returned
AllSettled(pr) == pr.pending = {}

Update(id, step) ==
    /\ job' = [job EXCEPT ![id] = step.job]
    /\ proc' = [proc EXCEPT ![id] = step.proc]
    /\ activeJobs' = step.active

\* generateSchema for the URL at position pos of job id settles
Resolve(id, pos, ext) ==
    /\ id \in 1..Len(job)
    /\ proc[id].pc = "awaiting"
    /\ pos \in proc[id].pending
    /\ LET response == generateSchema(ext)
           jr == UrlCallback(job[id], job[id].urls[pos], response)
           pr == [UrlEvent(proc[id], response) EXCEPT
                      !.pending = @ \ {pos},
                      !.extFailed = IF ext = "ok" THEN @ ELSE @ \cup {pos}]
           step == IF AllSettled(pr)
                   THEN AfterBatch(id, jr, pr, activeJobs, pr.batch)
                   ELSE [job |-> jr, proc |-> pr, active |-> activeJobs]
       IN /\ Update(id, step)
          /\ ret' = Failure("generateSchema", id, "", pos, IF ext = "ok" THEN "" ELSE ext)
    /\ UNCHANGED <<jobs, cutoffDate, request, storeVars, authVars, realtimeVars>>

\* the sleep of line 328 ends
DelayElapsed(id) ==
    /\ id \in 1..Len(job)
    /\ proc[id].pc = "delay"
    /\ LET step == LoopHead(id, job[id], proc[id], activeJobs, proc[id].batch + 1)
       IN Update(id, step)
    /\ ret' = NoCall
    /\ UNCHANGED <<jobs, cutoffDate, request, storeVars, authVars, realtimeVars>>

\* ------------------------------------------------------------------ startJob
\* a plausible slip: > for >= in the capacity check
startJobErrorOffByOne(jobId) ==
    IF jobId \notin jobs THEN "Job not found"
    ELSE IF job[jobId].status # "pending" THEN "Job is not in pending status"
    ELSE IF Cardinality(activeJobs) > maxConcurrentJobs
         THEN "Server is at maximum capacity"
    ELSE ""

startJobError(jobId) ==
    IF jobId \notin jobs THEN "Job not found"
    ELSE IF job[jobId].status # "pending" THEN "Job is not in pending status"
    ELSE IF Cardinality(activeJobs) >= maxConcurrentJobs
         THEN "Server is at maximum capacity"
    ELSE ""

StartJob(jobId) ==
    LET error == startJobError(jobId)
    IN /\ ret' = Failure("startJob", jobId, "", 0, error)
       /\ IF error = ""
          THEN LET jr == [job[jobId] EXCEPT !.status = "processing", !.startedAt = 1]
               IN Update(jobId, LoopHead(jobId, jr, proc[jobId], activeJobs \cup {jobId}, 1))
          ELSE /\ proc' = IF error = "Server is at maximum capacity"
                          THEN [proc EXCEPT ![jobId].refused = TRUE]
                          ELSE proc
               /\ UNCHANGED <<job, activeJobs>>
       /\ UNCHANGED <<jobs, cutoffDate, request, storeVars, authVars, realtimeVars>>

\* ----------------------------------------------------------------- cancelJob
cancelJobError(jobId, userId) ==
    IF jobId \notin jobs THEN "Job not found"
    ELSE IF job[jobId].userId # userId THEN "Unauthorized to cancel this job"
    ELSE IF job[jobId].status \in {"completed", "failed"}
         THEN "Cannot cancel a completed or failed job"
    ELSE ""

\* a plausible slip: cancelJob forgets to set the status
CancelJobKeepsStatus(jobId, userId) ==
    LET error == cancelJobError(jobId, userId)
    IN /\ ret' = Outcome("cancelJob", jobId, userId, 0, error)
       /\ IF error = ""
          THEN /\ job[jobId].completedAt < MaxStamp
               /\ job' = [job EXCEPT ![jobId].completedAt = NewDate(@)]
               /\ proc' = [proc EXCEPT ![jobId].emitted.jobCancelled = @ + 1]
               /\ activeJobs' = activeJobs \ {jobId}
          ELSE UNCHANGED <<job, proc, activeJobs>>
       /\ UNCHANGED <<jobs, cutoffDate, request, storeVars, authVars, realtimeVars>>

CancelJob(jobId, userId) ==
    LET error == cancelJobError(jobId, userId)
    IN /\ ret' = Outcome("cancelJob", jobId, userId, 0, error)
       /\ IF error = ""
          THEN /\ job[jobId].completedAt < MaxStamp
               /\ job' = [job EXCEPT ![jobId].status = "cancelled",
                                     ![jobId].completedAt = NewDate(@)]
               /\ proc' = [proc EXCEPT ![jobId].emitted.jobCancelled = @ + 1]
               /\ activeJobs' = activeJobs \ {jobId}
          ELSE UNCHANGED <<job, proc, activeJobs>>
       /\ UNCHANGED <<jobs, cutoffDate, request, storeVars, authVars, realtimeVars>>

\* ------------------------------------------------------------ cleanupOldJobs
\* a plausible slip: the cleanup forgets to spare the jobs that are processing
CleanupOldJobsAnyStatus ==
    /\ jobs' = {j \in jobs : ~(job[j].createdAt < cutoffDate)}
    /\ ret' = NoCall
    /\ UNCHANGED <<job, proc, activeJobs, cutoffDate, request, storeVars, authVars, realtimeVars>>

CleanupOldJobs ==
    /\ jobs' = {j \in jobs : ~(job[j].createdAt < cutoffDate /\ job[j].status # "processing")}
    /\ ret' = NoCall
    /\ UNCHANGED <<job, proc, activeJobs, cutoffDate, request, storeVars, authVars, realtimeVars>>

\* time passes: one more job is older than seven days
ClockAdvances ==
    /\ cutoffDate <= Len(job)
    /\ cutoffDate' = cutoffDate + 1
    /\ ret' = NoCall
    /\ UNCHANGED <<jobs, job, proc, activeJobs, request, storeVars, authVars, realtimeVars>>

\* ------------------------------------------------------ the scheduler: Spec
UrlA == <<"https", ":", "x">>
UrlB == <<"http", ":", "x">>
UrlC == <<"HTTP", ":", "x">>
UrlD == <<"https", ":", "http">>
UrlE == <<"HTTP", ":", "http">>
NotAUrl == <<"x">>

\* the e2e scenario of the specification: two URLs around one that is none
Pool == <<UrlA, NotAUrl, UrlB, UrlC, UrlD, UrlE>>

SchedulerUrlLists == {SubSeq(Pool, 1, n) : n \in 1..MaxPool} \cup {<<NotAUrl>>}

SchedulerOptions ==
    [maxConcurrency : {Absent} \cup 1..MaxConcurrencyInput,
     delayBetweenRequests : {Absent, 0}]

JobIds == 1..MaxJobs

Create ==
    /\ Len(job) < MaxJobs
    /\ \E u \in Users, urls \in SchedulerUrlLists, o \in SchedulerOptions :
          CreateJob(u, urls, o)

Start == \E j \in JobIds : StartJob(j)

Cancel == \E j \in JobIds, u \in Users : CancelJob(j, u)

Settle == \E j \in JobIds, pos \in 1..MaxPool, ext \in ExtOutcomes : Resolve(j, pos, ext)

Wake == \E j \in JobIds : DelayElapsed(j)

Next ==
    \/ Create
    \/ Start
    \/ Cancel
    \/ Settle
    \/ Wake
    \/ CleanupOldJobs
    \/ ClockAdvances

Spec == Init /\ [][Next]_vars

\* ------------------------------------------- the scheduler, fair: SpecLive
\* every call of the per-URL processor returns (generateSchema resolves or
\* rejects; its HTTP clients have timeouts)
CallsReturn ==
    \A j \in JobIds, pos \in 1..MaxPool :
        WF_vars(\E ext \in ExtOutcomes : Resolve(j, pos, ext))

\* every timer of this.delay fires
TimersFire == \A j \in JobIds : WF_vars(DelayElapsed(j))

SpecLive == Init /\ [][Next]_vars /\ CallsReturn /\ TimersFire

\* ------------------------------------- the capacity limits: SpecCapacity
(***************************************************************************)
(* Enough single-URL jobs, submitted with default options by two users, to *)
(* fill the active set and leave one job waiting.                          *)
(***************************************************************************)
MaxJobsCapacity == maxConcurrentJobs + 1

\* (the two users are interchangeable: the first job is submitted by u1)
CapacityCreate ==
    /\ Len(job) < MaxJobsCapacity
    /\ \E u \in Users :
          /\ job = << >> => u = "u1"
          /\ CreateJob(u, <<UrlA>>, [maxConcurrency |-> Absent, delayBetweenRequests |-> Absent])

CapacityStart == \E j \in {i \in jobs : job[i].status = "pending"} : StartJob(j)

\* (a cancel request arrives while the server is at capacity: the case in
\* which cancelJob decides whether a further startJob is admitted)
CapacityCancel ==
    /\ Cardinality(activeJobs) >= maxConcurrentJobs
    /\ \E j \in activeJobs : CancelJob(j, job[j].userId)

CapacitySettle == \E j \in 1..Len(job) : Resolve(j, 1, "ok")

NextCapacity ==
    \/ CapacityCreate
    \/ CapacityStart
    \/ CapacityCancel
    \/ CapacitySettle

SpecCapacity == Init /\ [][NextCapacity]_vars

\* ------------------------------------------------- createJob: SpecCreate
(***************************************************************************)
(* One request body, submitted to createJob again and again: every raw     *)
(* string of at most MaxUrlLen characters on its own, every list of at     *)
(* most MaxListLen sample strings, and lists around the cap of 100 URLs.   *)
(***************************************************************************)
Strings(n) == UNION {[1..k -> Chars] : k \in 0..n}

OtherScheme == <<"x", ":", "x">>
NoHost == <<"http", ":">>

SampleUrls == {UrlA, UrlB, UrlC, NotAUrl, OtherScheme, NoHost}

Repeat(url, n) == [i \in 1..n |-> url]

CreateUrlLists ==
    {<<str>> : str \in Strings(MaxUrlLen)}
        \cup UNION {[1..k -> SampleUrls] : k \in 0..MaxListLen}
        \cup {Repeat(UrlA, maxUrlsPerJob),
              Repeat(UrlA, maxUrlsPerJob + 1),
              Repeat(UrlA, maxUrlsPerJob) \o <<NotAUrl>>,
              <<NotAUrl>> \o Repeat(UrlB, maxUrlsPerJob + 1)}

InitCreate ==
    /\ jobs = {}
    /\ job = << >>
    /\ activeJobs = {}
    /\ proc = << >>
    /\ cutoffDate = 1
    /\ request \in [userId : Users, urls : CreateUrlLists]
    /\ ret = NoCall
    /\ StoreInit
    /\ AuthInit
    /\ RealtimeInit

SubmitRequest ==
    CreateJob(request.userId, request.urls,
              [maxConcurrency |-> Absent, delayBetweenRequests |-> Absent])

NextCreate == SubmitRequest

SpecCreate == InitCreate /\ [][NextCreate]_vars

\* ------------------------------------------------------ the autosave store
staleAfterHours == 24

manualDefaultVersion == 1

TickHours == 24       \* hours the clock advances in one step
MaxTicks == 2         \* clock steps in one behaviour of SpecAutosave
MaxWrites == 3        \* write handlers started in one behaviour
MaxInFlight == 2      \* write handlers suspended at the same time
MaxVersionInput == 2  \* the body.version of a manual save that sends one

Matching(p, u) == {d \in autosaveStates : d.projectID = p /\ d.ownerID = u}

\* findOne({ projectID, ownerID }): the first matching document in natural
\* (insertion) order
findOne(p, u) ==
    IF Matching(p, u) = {} THEN NoState
    ELSE CHOOSE d \in Matching(p, u) : \A e \in Matching(p, u) : d.id <= e.id

\* a plausible slip: the comparison of isStale turned around
isStaleReversed(doc, t) == doc.lastSavedAt > t - staleAfterHours

\* autosaveStateSchema.methods.isStale, evaluated at instant t
isStale(doc, t) == doc.lastSavedAt < t - staleAfterHours

\* the pre('save') hook of the schema: runs when a document is saved with
\* save(); findOneAndUpdate is a query and runs no save middleware
preSaveAutosaveState(doc) ==
    IF doc.recoveryToken = NoToken /\ doc.isRecoverable
    THEN [doc EXCEPT !.recoveryToken = "token"]
    ELSE doc

\* { draftContent, lastSavedAt: new Date(), $inc: { version: 1 } }
\* ($inc of a field that does not exist sets it to the increment)
autosaveUpdate(doc, h) ==
    [doc EXCEPT !.draftContent = h.draftContent,
                !.lastSavedAt = h.at,
                !.version = @ + 1]

\* { draftContent, version: version || 1, lastSavedAt: new Date(), metadata }
manualUpdate(doc, h) ==
    [doc EXCEPT !.draftContent = h.draftContent,
                !.version = IF h.version = Absent THEN manualDefaultVersion
                                                   ELSE h.version,
                !.lastSavedAt = h.at]

update(doc, h) ==
    IF h.kind = "save" THEN manualUpdate(doc, h) ELSE autosaveUpdate(doc, h)

\* the document an upsert inserts: the filter's fields, then the update
Inserted(h) ==
    update([NoState EXCEPT !.id = h.hid, !.projectID = h.projectId,
                           !.ownerID = h.userId], h)

NoSave == [currentDraft |-> NoDraft, pushed |-> << >>, whole |-> FALSE,
           draftHistory |-> << >>, v |-> 0]

Handler(hid, kind, userId, projectId, draftContent, version, loaded) ==
    [hid |-> hid, kind |-> kind, userId |-> userId, projectId |-> projectId,
     draftContent |-> draftContent, version |-> version, at |-> now,
     pc |-> "update", loaded |-> loaded, stateVersion |-> 0, save |-> NoSave]

Response(op, userId, projectId, status, draftContent, version, unhandled) ==
    [op |-> op, userId |-> userId, projectId |-> projectId, status |-> status,
     draftContent |-> draftContent, version |-> version, unhandled |-> unhandled]

(***************************************************************************)
(* An Express response is sent by the first res.json of a handler; a later *)
(* res.json throws ERR_HTTP_HEADERS_SENT.  calls lists the res.json calls  *)
(* a handler makes in order, the one of its catch block included: the      *)
(* client receives the first, and when there are more the last one throws  *)
(* inside the catch block and the handler's promise is rejected unhandled. *)
(***************************************************************************)
Sent(op, userId, projectId, calls) ==
    Response(op, userId, projectId, calls[1].status, calls[1].draftContent,
             calls[1].version, Len(calls) > 1)

Json(status, draftContent, version) ==
    [status |-> status, draftContent |-> draftContent, version |-> version]

\* ----------------------------------------------------- the draft history
maxDraftHistory == 50

Max(S) == CHOOSE x \in S : \A y \in S : y <= x

Versions(history) == {history[i].version : i \in 1..Len(history)}

\* a plausible slip: the next number is the length of the history plus one
addDraftVersionByLength(doc, content, tags, t) ==
    LET newVersion == Len(doc.draftHistory) + 1
        newDraft == [content |-> content, version |-> newVersion,
                     createdAt |-> t, updatedAt |-> t,
                     tags |-> IF tags = Absent THEN <<"auto">> ELSE tags]
    IN [doc EXCEPT !.currentDraft = newDraft,
                   !.draftHistory = Append(@, newDraft),
                   !.status = IF @ = "complete" THEN "draft" ELSE @,
                   !.isModified = TRUE]

\* projectSchema.methods.addDraftVersion at instant t
addDraftVersion(doc, content, tags, t) ==
    LET newVersion == IF Len(doc.draftHistory) > 0
                      THEN Max(Versions(doc.draftHistory)) + 1
                      ELSE 1
        newDraft == [content |-> content, version |-> newVersion,
                     createdAt |-> t, updatedAt |-> t,
                     tags |-> IF tags = Absent THEN <<"auto">> ELSE tags]
    IN [doc EXCEPT !.currentDraft = newDraft,
                   !.draftHistory = Append(@, newDraft),
                   !.status = IF @ = "complete" THEN "draft" ELSE @,
                   !.isModified = TRUE]

\* draftHistory.find(d => d.version === version): the first such entry, 0 if none
FindVersion(history, version) ==
    IF version \in Versions(history)
    THEN CHOOSE i \in 1..Len(history) :
            /\ history[i].version = version
            /\ \A k \in 1..(i - 1) : history[k].version # version
    ELSE 0

\* a plausible slip: the restore rolls the history back to the restored version
restoreDraftVersionRollback(doc, version, t) ==
    LET i == FindVersion(doc.draftHistory, version)
    IN IF i = 0 THEN [ok |-> FALSE, doc |-> doc]
       ELSE [ok |-> TRUE,
             doc |-> [doc EXCEPT !.currentDraft =
                                     [doc.draftHistory[i] EXCEPT !.updatedAt = t],
                                 !.draftHistory = SubSeq(@, 1, i),
                                 !.status = "draft",
                                 !.isModified = TRUE]]

\* projectSchema.methods.restoreDraftVersion at instant t
restoreDraftVersion(doc, version, t) ==
    LET i == FindVersion(doc.draftHistory, version)
    IN IF i = 0 THEN [ok |-> FALSE, doc |-> doc]
       ELSE [ok |-> TRUE,
             doc |-> [doc EXCEPT !.currentDraft =
                                     [doc.draftHistory[i] EXCEPT !.updatedAt = t],
                                 !.status = "draft",
                                 !.isModified = TRUE]]

\* [...new Set([...old, ...tags])]: first occurrences, in order
RECURSIVE Unique(_)
Unique(seq) ==
    IF seq = << >> THEN << >>
    ELSE LET front == Unique(SubSeq(seq, 1, Len(seq) - 1))
             x == seq[Len(seq)]
         IN IF \E i \in 1..Len(front) : front[i] = x THEN front ELSE Append(front, x)

\* a plausible slip: the new tags are appended without the Set
tagVersionAppend(doc, version, tags) ==
    LET i == FindVersion(doc.draftHistory, version)
    IN IF i = 0 THEN [ok |-> FALSE, doc |-> doc]
       ELSE [ok |-> TRUE,
             doc |-> [doc EXCEPT !.draftHistory[i].tags = @ \o tags,
                                 !.isModified = TRUE]]

\* projectSchema.methods.tagVersion
tagVersion(doc, version, tags) ==
    LET i == FindVersion(doc.draftHistory, version)
    IN IF i = 0 THEN [ok |-> FALSE, doc |-> doc]
       ELSE [ok |-> TRUE,
             doc |-> [doc EXCEPT !.draftHistory[i].tags = Unique(@ \o tags),
                                 !.isModified = TRUE]]

\* a plausible slip: the comparator of the sort turned around (oldest first)
sortOldestFirst(history) ==
    LET n == Len(history)
        place(i) == Cardinality({k \in 1..n :
                        \/ history[k].createdAt < history[i].createdAt
                        \/ history[k].createdAt = history[i].createdAt /\ k <= i})
        placed == {<<place(i), i>> : i \in 1..n}
    IN [r \in 1..n |-> history[(CHOOSE e \in placed : e[1] = r)[2]]]

\* sort((a, b) => b.createdAt - a.createdAt): newest first, stable (entries of
\* equal createdAt keep their order); place(i) is where entry i ends up
sortNewestFirst(history) ==
    LET n == Len(history)
        place(i) == Cardinality({k \in 1..n :
                        \/ history[k].createdAt > history[i].createdAt
                        \/ history[k].createdAt = history[i].createdAt /\ k <= i})
        placed == {<<place(i), i>> : i \in 1..n}
    IN [r \in 1..n |-> history[(CHOOSE e \in placed : e[1] = r)[2]]]

\* projectSchema.methods.getDraftHistory(limit): Array.prototype.sort sorts
\* this.draftHistory in place, slice copies the first limit entries
getDraftHistory(doc, limit) ==
    LET sorted == sortNewestFirst(doc.draftHistory)
    IN [doc |-> [doc EXCEPT !.draftHistory = sorted],
        history |-> SubSeq(sorted, 1, IF limit < Len(sorted) THEN limit ELSE Len(sorted))]

\* projectSchema.methods.getVersionStats (the counts and the two dates)
getVersionStats(doc) ==
    LET history == doc.draftHistory
        totalVersions == Len(history)
        autoVersions == Cardinality({i \in 1..totalVersions :
                            \E k \in 1..Len(history[i].tags) : history[i].tags[k] = "auto"})
    IN [totalVersions |-> totalVersions,
        autoVersions |-> autoVersions,
        manualVersions |-> totalVersions - autoVersions,
        oldestVersion |-> IF totalVersions > 0
                          THEN history[totalVersions].createdAt ELSE "null",
        newestVersion |-> IF totalVersions > 0 THEN history[1].createdAt ELSE "null"]

\* projectSchema.pre('save')
preSaveProject(doc) ==
    IF Len(doc.draftHistory) > maxDraftHistory
    THEN [doc EXCEPT !.draftHistory =
                         SubSeq(sortNewestFirst(doc.draftHistory), 1, maxDraftHistory)]
    ELSE doc

\* ------------------------------------------- the autosave store: handlers
\* what project.save() sends for a document changed by addDraftVersion: the
\* new entry as a $push, or the whole array (guarded by the version key)
\* when the pre('save') hook replaced it
SaveCommand(loaded, local) ==
    LET saved == preSaveProject(local)
    IN [currentDraft |-> saved.currentDraft,
        pushed |-> IF Len(local.draftHistory) > maxDraftHistory
                   THEN << >> ELSE <<local.currentDraft>>,
        whole |-> Len(local.draftHistory) > maxDraftHistory,
        draftHistory |-> IF Len(local.draftHistory) > maxDraftHistory
                         THEN saved.draftHistory ELSE << >>,
        v |-> loaded.v]

\* POST /project/:projectId/autosave and socket.on('trigger-autosave') up to
\* their await: the update is built (new Date()) and sent
StartAutosave(kind, userId, projectId, draftContent) ==
    /\ started < MaxWrites
    /\ Cardinality(handlers) < MaxInFlight
    /\ handlers' = handlers \cup
          {Handler(started + 1, kind, userId, projectId, draftContent, Absent, NoProject)}
    /\ started' = started + 1
    /\ res' = NoResponse
    /\ UNCHANGED <<autosaveStates, project, now, assigned, schedulerVars, authVars, realtimeVars>>

\* POST /project/:projectId/save up to the await of the upsert: the project
\* is looked up, a missing one is answered 404 without return, and the
\* update is built and sent
StartSave(userId, projectId, draftContent, version) ==
    LET loaded == IF project[projectId].ownerID = userId
                  THEN project[projectId] ELSE NoProject
    IN /\ started < MaxWrites
       /\ Cardinality(handlers) < MaxInFlight
       /\ handlers' = handlers \cup
             {Handler(started + 1, "save", userId, projectId, draftContent, version, loaded)}
       /\ started' = started + 1
       /\ res' = IF loaded = NoProject
                 THEN Response("save", userId, projectId, 404, NoContent, 0, FALSE)
                 ELSE NoResponse
       /\ UNCHANGED <<autosaveStates, project, now, assigned, schedulerVars, authVars, realtimeVars>>

\* the handler h goes on after findOneAndUpdate resolved with doc
Continue(h, doc) ==
    IF h.kind # "save"
    THEN /\ handlers' = handlers \ {h}
         /\ res' = Response(h.kind, h.userId, h.projectId, 200, NoContent, doc.version, FALSE)
         /\ UNCHANGED <<project, assigned>>
    ELSE IF h.loaded = NoProject
    THEN \* addDraftVersion of null throws; the 404 went out before
         /\ handlers' = handlers \ {h}
         /\ res' = Response("save", h.userId, h.projectId, 404, NoContent, 0, TRUE)
         /\ UNCHANGED <<project, assigned>>
    ELSE LET local == addDraftVersion(h.loaded, h.draftContent, Absent, now)
         IN /\ handlers' = (handlers \ {h}) \cup
                  {[h EXCEPT !.pc = "project", !.stateVersion = doc.version,
                             !.save = SaveCommand(h.loaded, local)]}
            /\ assigned' = [assigned EXCEPT ![h.projectId] =
                                Append(@, local.currentDraft.version)]
            /\ res' = NoResponse
            /\ UNCHANGED project

\* the server executes findOneAndUpdate(..., { upsert: true }) of handler h:
\* it updates the matching document, or finds none and will insert one
ExecUpdate(h) ==
    /\ h \in handlers
    /\ h.pc = "update"
    /\ LET m == findOne(h.projectId, h.userId)
       IN IF m # NoState
          THEN /\ autosaveStates' = (autosaveStates \ {m}) \cup {update(m, h)}
               /\ Continue(h, update(m, h))
          ELSE /\ handlers' = (handlers \ {h}) \cup {[h EXCEPT !.pc = "insert"]}
               /\ res' = NoResponse
               /\ UNCHANGED <<autosaveStates, project, assigned>>
    /\ UNCHANGED <<started, now, schedulerVars, authVars, realtimeVars>>

\* the insert of an upsert that found no document (no unique index on
\* { projectID, ownerID } makes it fail when another insert came first)
ExecInsert(h) ==
    /\ h \in handlers
    /\ h.pc = "insert"
    /\ autosaveStates' = autosaveStates \cup {Inserted(h)}
    /\ Continue(h, Inserted(h))
    /\ UNCHANGED <<started, now, schedulerVars, authVars, realtimeVars>>

\* the server executes project.save() of the manual save handler h
ExecSave(h) ==
    /\ h \in handlers
    /\ h.pc = "project"
    /\ LET cur == project[h.projectId]
       IN IF h.save.whole /\ cur.v # h.save.v
          THEN /\ res' = Response("save", h.userId, h.projectId, 500, NoContent, 0, FALSE)
               /\ UNCHANGED project
          ELSE /\ project' = [project EXCEPT ![h.projectId] =
                      [cur EXCEPT !.currentDraft = h.save.currentDraft,
                                  !.draftHistory = IF h.save.whole
                                                   THEN h.save.draftHistory
                                                   ELSE @ \o h.save.pushed,
                                  !.v = @ + 1]]
               /\ res' = Response("save", h.userId, h.projectId, 200, NoContent,
                                  h.stateVersion, FALSE)
    /\ handlers' = handlers \ {h}
    /\ UNCHANGED <<autosaveStates, started, now, assigned, schedulerVars, authVars, realtimeVars>>

\* the res.json calls of GET /project/:projectId/recover, in order
recoverCalls(doc, t) ==
    IF doc = NoState
    THEN <<Json(404, NoContent, 0), Json(500, NoContent, 0)>>
    ELSE IF isStale(doc, t)
    THEN <<Json(410, NoContent, 0), Json(200, doc.draftContent, doc.version),
           Json(500, NoContent, 0)>>
    ELSE <<Json(200, doc.draftContent, doc.version)>>

\* GET /project/:projectId/recover
Recover(userId, projectId) ==
    /\ res' = Sent("recover", userId, projectId,
                   recoverCalls(findOne(projectId, userId), now))
    /\ UNCHANGED <<autosaveStates, project, handlers, started, now, assigned, schedulerVars, authVars, realtimeVars>>

\* DELETE /project/:projectId/autosave
Clear(userId, projectId) ==
    LET doc == findOne(projectId, userId)
    IN /\ autosaveStates' = autosaveStates \ {doc}
       /\ res' = Response("clear", userId, projectId,
                          IF doc = NoState THEN 404 ELSE 200, NoContent, 0, FALSE)
       /\ UNCHANGED <<project, handlers, started, now, assigned, schedulerVars, authVars, realtimeVars>>

\* autosaveStateSchema.statics.cleanupStaleStates, run by the hourly timer
CleanupStaleStates ==
    /\ autosaveStates' = {d \in autosaveStates : ~(d.lastSavedAt < now - staleAfterHours)}
    /\ res' = NoResponse
    /\ UNCHANGED <<project, handlers, started, now, assigned, schedulerVars, authVars, realtimeVars>>

\* time passes
Tick ==
    /\ now < MaxTicks * TickHours
    /\ now' = now + TickHours
    /\ res' = NoResponse
    /\ UNCHANGED <<autosaveStates, project, handlers, started, assigned, schedulerVars, authVars, realtimeVars>>

\* ------------------------------------------- the autosave store: SpecAutosave
AutosavePost ==
    \E u \in Users, p \in Projects :
        StartAutosave("autosave", u, p, ContentOf(started + 1))

TriggerAutosave ==
    \E u \in Users, p \in Projects :
        StartAutosave("trigger", u, p, ContentOf(started + 1))

ManualSave ==
    \E u \in Users, p \in Projects, v \in {Absent, MaxVersionInput} :
        StartSave(u, p, ContentOf(started + 1), v)

DbUpdate == \E h \in handlers : ExecUpdate(h)

DbInsert == \E h \in handlers : ExecInsert(h)

DbSave == \E h \in handlers : ExecSave(h)

RecoverGet == \E u \in Users, p \in Projects : Recover(u, p)

ClearDelete == \E u \in Users, p \in Projects : Clear(u, p)

NextAutosave ==
    \/ AutosavePost
    \/ TriggerAutosave
    \/ ManualSave
    \/ DbUpdate
    \/ DbInsert
    \/ DbSave
    \/ RecoverGet
    \/ ClearDelete
    \/ CleanupStaleStates
    \/ Tick

SpecAutosave == Init /\ [][NextAutosave]_vars

\* ------------------------------------------- the draft history: SpecHistory
MaxTagged == 1   \* tag requests in one behaviour

\* the history entry that the k-th manual save of a project left, the saves
\* one hour apart and the last of them an hour before the first instant
SavedDraft(k) ==
    [content |-> ContentOf(1), version |-> k,
     createdAt |-> k - maxDraftHistory - 1, updatedAt |-> k - maxDraftHistory - 1,
     tags |-> <<"auto">>]

\* the project after n manual saves of its owner, one after the other
Prefilled(n) ==
    [NewProject("u1") EXCEPT !.currentDraft = SavedDraft(n),
                             !.draftHistory = [k \in 1..n |-> SavedDraft(k)],
                             !.v = n]

InitHistory ==
    /\ jobs = {}
    /\ job = << >>
    /\ activeJobs = {}
    /\ proc = << >>
    /\ cutoffDate = 1
    /\ request = NoRequest
    /\ ret = NoCall
    /\ autosaveStates = {}
    /\ \E n \in {0, maxDraftHistory - 1, maxDraftHistory} :
          /\ project = [p \in Projects |->
                           IF n = 0 THEN NewProject("u1") ELSE Prefilled(n)]
          /\ assigned = [p \in Projects |-> [k \in 1..n |-> k]]
    /\ handlers = {}
    /\ started = 0
    /\ now = 0
    /\ res = NoResponse
    /\ AuthInit
    /\ RealtimeInit

\* the :version of a request: the first version of the project, the one
\* before the latest, and one never assigned
VersionInputs(p) ==
    {v \in {1, Len(assigned[p]) - 1, Len(assigned[p]) + 1} : v >= 1}

\* what project.save() leaves of a document loaded and changed by one handler
\* while no other handler writes the project
Saved(doc) == [preSaveProject(doc) EXCEPT !.isModified = FALSE]

\* POST /project/:projectId/restore/:version; the 404 answers do not return
Restore(userId, projectId, version) ==
    LET loaded == IF project[projectId].ownerID = userId
                  THEN project[projectId] ELSE NoProject
        r == restoreDraftVersion(loaded, version, now)
    IN /\ handlers = {}
       /\ IF loaded = NoProject
          THEN /\ res' = Sent("restore", userId, projectId,
                              <<Json(404, NoContent, 0), Json(500, NoContent, 0)>>)
               /\ UNCHANGED project
          ELSE IF ~r.ok
          THEN /\ res' = Sent("restore", userId, projectId,
                              <<Json(404, NoContent, 0), Json(200, NoContent, 0),
                                Json(500, NoContent, 0)>>)
               /\ project' = [project EXCEPT ![projectId] = Saved(loaded)]
          ELSE /\ res' = Sent("restore", userId, projectId,
                              <<Json(200, r.doc.currentDraft.content, version)>>)
               /\ project' = [project EXCEPT ![projectId] = Saved(r.doc)]
       /\ UNCHANGED <<autosaveStates, handlers, started, now, assigned, schedulerVars, authVars, realtimeVars>>

\* POST /project/:projectId/tag/:version
Tag(userId, projectId, version, tags) ==
    LET loaded == IF project[projectId].ownerID = userId
                  THEN project[projectId] ELSE NoProject
        r == tagVersion(loaded, version, tags)
    IN /\ handlers = {}
       /\ IF loaded = NoProject \/ ~r.ok
          THEN /\ res' = Sent("tag", userId, projectId, <<Json(404, NoContent, 0)>>)
               /\ UNCHANGED project
          ELSE /\ res' = Sent("tag", userId, projectId, <<Json(200, NoContent, version)>>)
               /\ project' = [project EXCEPT ![projectId] = Saved(r.doc)]
       /\ UNCHANGED <<autosaveStates, handlers, started, now, assigned, schedulerVars, authVars, realtimeVars>>

\* a manual save sent when no other handler is running
HistoryManualSave == handlers = {} /\ ManualSave

HistoryRestore ==
    \E u \in Users, p \in Projects : \E v \in VersionInputs(p) : Restore(u, p, v)

HistoryTag ==
    \E u \in Users, p \in Projects : \E v \in VersionInputs(p) :
        /\ Cardinality({i \in 1..Len(project[p].draftHistory) :
                           project[p].draftHistory[i].tags # <<"auto">>}) < MaxTagged
        /\ Tag(u, p, v, <<"auto", "final">>)

NextHistory ==
    \/ HistoryManualSave
    \/ DbUpdate
    \/ DbInsert
    \/ DbSave
    \/ HistoryRestore
    \/ HistoryTag
    \/ Tick

SpecHistory == InitHistory /\ [][NextHistory]_vars


\* ------------------------------------------------ tagging versions: SpecTag
MaxTagHistory == 3   \* versions of the project when the tagging starts
MaxTagsInput == 2    \* length of the tags array of one request

TagNames == {"auto", "final", "seo"}

\* req.body.tags: any array of strings, repetitions included
TagLists == UNION {[1..k -> TagNames] : k \in 0..MaxTagsInput}

InitTag ==
    /\ jobs = {}
    /\ job = << >>
    /\ activeJobs = {}
    /\ proc = << >>
    /\ cutoffDate = 1
    /\ request = NoRequest
    /\ ret = NoCall
    /\ autosaveStates = {}
    /\ \E n \in 0..MaxTagHistory :
          /\ project = [p \in Projects |->
                           IF n = 0 THEN NewProject("u1") ELSE Prefilled(n)]
          /\ assigned = [p \in Projects |-> [k \in 1..n |-> k]]
    /\ handlers = {}
    /\ started = 0
    /\ now = 0
    /\ res = NoResponse
    /\ AuthInit
    /\ RealtimeInit

TagRequest ==
    \E u \in Users, p \in Projects, v \in 1..(MaxTagHistory + 1), T \in TagLists :
        Tag(u, p, v, T)

NextTag == TagRequest

SpecTag == InitTag /\ [][NextTag]_vars


\* -------------------------------------------- version statistics: SpecStats
(***************************************************************************)
(* The methods of one Project document, called one after the other on the  *)
(* same instance: project[p] is the document in memory, and a save         *)
(* persists it as the pre('save') hook leaves it.                          *)
(***************************************************************************)
defaultHistoryLimit == 10

\* addDraftVersion as the manual save calls it, without options
StatsAdd ==
    \E p \in Projects :
        /\ started < MaxWrites
        /\ started' = started + 1
        /\ project' = [project EXCEPT ![p] =
                          addDraftVersion(@, ContentOf(started + 1), Absent, now)]
        /\ res' = NoResponse
        /\ UNCHANGED <<autosaveStates, handlers, now, assigned, schedulerVars, authVars,
                       realtimeVars>>

\* getDraftHistory with the default limit
StatsHistory ==
    \E p \in Projects :
        /\ project' = [project EXCEPT ![p] = getDraftHistory(@, defaultHistoryLimit).doc]
        /\ res' = NoResponse
        /\ UNCHANGED <<autosaveStates, handlers, started, now, assigned, schedulerVars,
                       authVars, realtimeVars>>

\* save() of the document
StatsSave ==
    \E p \in Projects :
        /\ project' = [project EXCEPT ![p] = Saved(@)]
        /\ res' = NoResponse
        /\ UNCHANGED <<autosaveStates, handlers, started, now, assigned, schedulerVars,
                       authVars, realtimeVars>>

\* getVersionStats of the document
StatsGet ==
    \E p \in Projects :
        /\ res' = [op |-> "stats", userId |-> project[p].ownerID, projectId |-> p,
                   status |-> 200, draftContent |-> NoContent, version |-> 0,
                   unhandled |-> FALSE, stats |-> getVersionStats(project[p])]
        /\ UNCHANGED <<autosaveStates, project, handlers, started, now, assigned,
                       schedulerVars, authVars, realtimeVars>>

NextStats ==
    \/ StatsAdd
    \/ StatsHistory
    \/ StatsSave
    \/ StatsGet
    \/ Tick

SpecStats == InitHistory /\ [][NextStats]_vars

\* ------------------------------------------------------ accounts: SpecAuth
maxLoginAttempts == 5

lockoutMinutes == 120

registrationWindowMinutes == 15

maxRegistrationRequests == 3

TickMinutes == 60    \* minutes the clock of the account routes advances in one step
MaxAuthTicks == 2    \* clock steps in one behaviour of SpecAuth

\* the password every registration sends, and the one a wrong login sends
Passwords == {"secret1", "letmein"}

RegisteredPassword == "secret1"

\* ADMIN_REGISTRATION_TOKEN, and the Authorization headers a request may carry
AdminToken == "Bearer admin-token"

NoHeader == "undefined"

Authorizations == {NoHeader, AdminToken, "Bearer guess"}

\* bcrypt.hash of the pre('save') hook of the user schema
Hash(password) == <<"bcrypt", password>>

\* userSchema.methods.comparePassword
comparePassword(user, candidatePassword) == Hash(candidatePassword) = user.passwordHash

\* userSchema.methods.isLocked at instant t
isLocked(user, t) == user.lockoutUntil # NoDate /\ user.lockoutUntil > t

\* userSchema.methods.incrementLoginAttempts at instant t (with its save)
incrementLoginAttempts(user, t) ==
    [user EXCEPT !.loginAttempts = @ + 1,
                 !.lockoutUntil = IF user.loginAttempts + 1 >= maxLoginAttempts
                                  THEN t + lockoutMinutes ELSE @]

\* userSchema.methods.resetLoginAttempts (with its save)
resetLoginAttempts(user) ==
    [user EXCEPT !.loginAttempts = 0, !.lockoutUntil = NoDate]

\* new User({ email, passwordHash: password, subscriptionStatus: 'free' }) and
\* its save: role is the schema default; the role adminOnlyRegistration puts
\* into req.body ('admin' for the first user) is not read
NewUser(email, password) ==
    [NoUser EXCEPT !.email = email, !.passwordHash = Hash(password),
                   !.role = "user", !.isActive = TRUE]

userCount == Cardinality({e \in Emails : users[e] # NoUser})

\* the answer of a route whose res.json calls have these statuses, in order
AuthSent(op, email, statuses, attemptsLeft) ==
    [op |-> op, email |-> email, status |-> statuses[1],
     attemptsLeft |-> attemptsLeft, unhandled |-> Len(statuses) > 1]

\* POST /register behind registrationRateLimit and adminOnlyRegistration
Register(email, password, authorization) ==
    LET Recent(t) == clock - t < registrationWindowMinutes
        recentAttempts == SelectSeq(registrationAttempts, Recent)
    IN IF Len(recentAttempts) >= maxRegistrationRequests
       THEN /\ authRes' = AuthSent("register", email, <<429>>, 0)
            /\ UNCHANGED <<users, registrationAttempts>>
       ELSE /\ registrationAttempts' = Append(recentAttempts, clock)
            /\ IF userCount > 0 /\ authorization # AdminToken
               THEN /\ authRes' = AuthSent("register", email, <<403>>, 0)
                    /\ UNCHANGED users
               ELSE IF users[email] # NoUser
               THEN \* 400 without return; the save then fails on the unique email
                    /\ authRes' = AuthSent("register", email, <<400, 500>>, 0)
                    /\ UNCHANGED users
               ELSE /\ users' = [users EXCEPT ![email] = NewUser(email, password)]
                    /\ authRes' = AuthSent("register", email, <<201>>, 0)

\* POST /login behind checkAccountLockout.  The 401 answers do not return:
\* after a wrong password the handler goes on to resetLoginAttempts and to
\* the save of lastLoginAt, and its last res.json throws.
Login(email, password) ==
    LET user == users[email]
        failed == incrementLoginAttempts(user, clock)
        attemptsLeft == IF maxLoginAttempts - failed.loginAttempts > 0
                        THEN maxLoginAttempts - failed.loginAttempts ELSE 0
    IN IF user # NoUser /\ isLocked(user, clock)
       THEN /\ authRes' = AuthSent("login", email, <<423>>, 0)
            /\ UNCHANGED <<users, failures>>
       ELSE IF user = NoUser
       THEN /\ authRes' = AuthSent("login", email, <<401, 500>>, 0)
            /\ UNCHANGED <<users, failures>>
       ELSE IF ~comparePassword(user, password)
       THEN /\ users' = [users EXCEPT ![email] =
                           [resetLoginAttempts(failed) EXCEPT !.lastLoginAt = clock]]
            /\ authRes' = AuthSent("login", email, <<401, 200, 500>>, attemptsLeft)
            /\ failures' = [failures EXCEPT ![email] =
                               IF @ < maxLoginAttempts THEN @ + 1 ELSE @]
       ELSE /\ users' = [users EXCEPT ![email] =
                           [resetLoginAttempts(user) EXCEPT !.lastLoginAt = clock]]
            /\ authRes' = AuthSent("login", email, <<200>>, 0)
            /\ failures' = [failures EXCEPT ![email] = 0]

RegisterPost ==
    \E e \in Emails, a \in Authorizations :
        /\ Register(e, RegisteredPassword, a)
        /\ UNCHANGED <<failures, clock, schedulerVars, storeVars, realtimeVars>>

LoginPost ==
    \E e \in Emails, pw \in Passwords :
        /\ Login(e, pw)
        /\ UNCHANGED <<registrationAttempts, clock, schedulerVars, storeVars, realtimeVars>>

\* time passes
AuthTick ==
    /\ clock < MaxAuthTicks * TickMinutes
    /\ clock' = clock + TickMinutes
    /\ authRes' = NoAuthResponse
    /\ UNCHANGED <<users, registrationAttempts, failures,
                   schedulerVars, storeVars, realtimeVars>>

NextAuth ==
    \/ RegisterPost
    \/ LoginPost
    \/ AuthTick

SpecAuth == Init /\ [][NextAuth]_vars


\* ------------------------------------------- the realtime layer: SpecRealtime
MaxSocketEvents == 3     \* join-project and trigger-autosave events dispatched
MaxSocketInFlight == 2   \* socket handlers suspended at the same time

\* the projects of the realtime layer: two of user u1, one of user u2
RoomProjects == {"p1", "p2", "p3"}

OwnerOf(p) == IF p = "p3" THEN "u2" ELSE "u1"

\* the projectId of an event: a project, or an id no project has
ProjectIdInputs == RoomProjects \cup {"p9"}

ConnOrder == <<"s1", "s2">>

InitRealtime ==
    /\ jobs = {}
    /\ job = << >>
    /\ activeJobs = {}
    /\ proc = << >>
    /\ cutoffDate = 1
    /\ request = NoRequest
    /\ ret = NoCall
    /\ autosaveStates = {}
    /\ project = [p \in RoomProjects |-> NewProject(OwnerOf(p))]
    /\ assigned = [p \in RoomProjects |-> << >>]
    /\ handlers = {}
    /\ started = 0
    /\ now = 0
    /\ res = NoResponse
    /\ AuthInit
    /\ RealtimeInit

\* a plausible slip: the lookup of join-project without the owner
findProjectById(projectId, userId) == projectId \in DOMAIN project

\* Project.findOne({ _id: projectId, ownerID: socket.user._id }) finds one
findOwnedProject(projectId, userId) ==
    projectId \in DOMAIN project /\ project[projectId].ownerID = userId

Message(to, event, projectId, version) ==
    [to |-> to, event |-> event, projectId |-> projectId, version |-> version]

\* socket.emit(event, ...): reaches the connection while it is connected
EmitTo(c, event, projectId, version) ==
    IF socket[c].connected THEN <<Message(c, event, projectId, version)>> ELSE << >>

\* a plausible slip: io.to(room) for socket.to(room), which spares no sender
BroadcastToAll(c, event, projectId) ==
    LET Member(d) == socket[d].connected /\ projectId \in socket[d].rooms
        members == SelectSeq(ConnOrder, Member)
    IN [i \in 1..Len(members) |-> Message(members[i], event, projectId, 0)]

\* socket.to(`project:${projectId}`).emit(event, ...): every connected member
\* of the room but the sender
Broadcast(c, event, projectId) ==
    LET Member(d) == d # c /\ socket[d].connected /\ projectId \in socket[d].rooms
        members == SelectSeq(ConnOrder, Member)
    IN [i \in 1..Len(members) |-> Message(members[i], event, projectId, 0)]

SocketHandler(c, event, projectId, pc, draftContent) ==
    [conn |-> c, event |-> event, projectId |-> projectId,
     h |-> [Handler(sockEvents + 1, "trigger", socket[c].user, projectId,
                    draftContent, Absent, NoProject) EXCEPT !.pc = pc]]

\* io.on('connection') after the authentication middleware accepted the token
Connect(c, u) ==
    /\ socket[c] = NoSocket
    /\ socket' = [socket EXCEPT ![c] = [NoSocket EXCEPT !.connected = TRUE, !.user = u]]
    /\ emitted' = << >>
    /\ UNCHANGED <<sockHandlers, sockEvents, schedulerVars, storeVars, authVars>>

\* socket.on('disconnect'): Socket.IO has taken the socket out of its rooms
OnDisconnect(c) ==
    /\ socket[c].connected
    /\ socket' = [socket EXCEPT ![c].connected = FALSE, ![c].rooms = {}]
    /\ emitted' = IF socket[c].projectId # NoProjectId
                  THEN Broadcast(c, "user-left", socket[c].projectId)
                  ELSE << >>
    /\ UNCHANGED <<sockHandlers, sockEvents, schedulerVars, storeVars, authVars>>

\* an event arrives on a connection and its handler runs up to its await
StartSocketHandler(c, event, projectId, pc, draftContent) ==
    /\ socket[c].connected
    /\ sockEvents < MaxSocketEvents
    /\ Cardinality(sockHandlers) < MaxSocketInFlight
    /\ sockHandlers' = sockHandlers \cup
          {SocketHandler(c, event, projectId, pc, draftContent)}
    /\ sockEvents' = sockEvents + 1
    /\ emitted' = << >>
    /\ UNCHANGED <<socket, schedulerVars, storeVars, authVars>>

\* socket.on('join-project') after Project.findOne resolved
JoinContinue(sh) ==
    /\ sh \in sockHandlers
    /\ sh.event = "join-project"
    /\ sockHandlers' = sockHandlers \ {sh}
    /\ IF findOwnedProject(sh.projectId, sh.h.userId)
       THEN /\ socket' = [socket EXCEPT ![sh.conn].projectId = sh.projectId,
                                        ![sh.conn].rooms = @ \cup {sh.projectId}]
            /\ emitted' = EmitTo(sh.conn, "joined-project", sh.projectId, 0)
       ELSE /\ emitted' = EmitTo(sh.conn, "error", sh.projectId, 0)
            /\ UNCHANGED socket
    /\ UNCHANGED <<sockEvents, schedulerVars, storeVars, authVars>>

\* socket.on('trigger-autosave') after findOneAndUpdate resolved with doc
TriggerContinue(sh, doc) ==
    /\ sockHandlers' = sockHandlers \ {sh}
    /\ emitted' = EmitTo(sh.conn, "autosave-complete", sh.projectId, doc.version)
                    \o Broadcast(sh.conn, "collaborator-saved", sh.projectId)

\* the server executes the findOneAndUpdate of a trigger-autosave handler
TriggerUpdate(sh) ==
    /\ sh \in sockHandlers
    /\ sh.event = "trigger-autosave"
    /\ sh.h.pc = "update"
    /\ LET m == findOne(sh.projectId, sh.h.userId)
       IN IF m # NoState
          THEN /\ autosaveStates' = (autosaveStates \ {m}) \cup {update(m, sh.h)}
               /\ TriggerContinue(sh, update(m, sh.h))
          ELSE /\ sockHandlers' = (sockHandlers \ {sh}) \cup {[sh EXCEPT !.h.pc = "insert"]}
               /\ emitted' = << >>
               /\ UNCHANGED autosaveStates
    /\ UNCHANGED <<socket, sockEvents, project, handlers, started, now, res, assigned,
                   schedulerVars, authVars>>

\* the insert of a trigger-autosave upsert that found no document
TriggerInsert(sh) ==
    /\ sh \in sockHandlers
    /\ sh.event = "trigger-autosave"
    /\ sh.h.pc = "insert"
    /\ autosaveStates' = autosaveStates \cup {Inserted(sh.h)}
    /\ TriggerContinue(sh, Inserted(sh.h))
    /\ UNCHANGED <<socket, sockEvents, project, handlers, started, now, res, assigned,
                   schedulerVars, authVars>>

\* the findOneAndUpdate of a trigger-autosave handler is rejected (the
\* database is unreachable, the id cannot be cast): the catch answers
\* { success: false, error }, a payload without a version
TriggerFail(sh) ==
    /\ sh \in sockHandlers
    /\ sh.event = "trigger-autosave"
    /\ sockHandlers' = sockHandlers \ {sh}
    /\ emitted' = EmitTo(sh.conn, "autosave-complete", sh.projectId, Absent)
    /\ UNCHANGED <<socket, sockEvents, schedulerVars, storeVars, authVars>>

\* socket.on('autosave-status'), socket.on('cursor-move') and
\* socket.on('text-select'): the payload is relayed to the room it names
Relay(c, event, projectId) ==
    /\ socket[c].connected
    /\ sockEvents < MaxSocketEvents
    /\ sockEvents' = sockEvents + 1
    /\ emitted' = Broadcast(c, event, projectId)
    /\ UNCHANGED <<socket, sockHandlers, schedulerVars, storeVars, authVars>>

\* the event each relaying handler emits
RelayEvents ==
    {"autosave-status-update", "user-cursor-move", "user-text-select"}

Connection == \E c \in Conns, u \in Users : Connect(c, u)

Disconnection == \E c \in Conns : OnDisconnect(c)

JoinProject ==
    \E c \in Conns, p \in ProjectIdInputs :
        StartSocketHandler(c, "join-project", p, "find", NoContent)

JoinResolved == \E sh \in sockHandlers : JoinContinue(sh)

SocketTriggerAutosave ==
    \E c \in Conns, p \in ProjectIdInputs :
        StartSocketHandler(c, "trigger-autosave", p, "update", ContentOf(sockEvents + 1))

SocketDbUpdate == \E sh \in sockHandlers : TriggerUpdate(sh)

SocketDbInsert == \E sh \in sockHandlers : TriggerInsert(sh)

SocketDbError == \E sh \in sockHandlers : TriggerFail(sh)

SocketRelay ==
    \E c \in Conns, e \in RelayEvents, p \in ProjectIdInputs : Relay(c, e, p)

NextRealtime ==
    \/ Connection
    \/ Disconnection
    \/ JoinProject
    \/ JoinResolved
    \/ SocketTriggerAutosave
    \/ SocketDbUpdate
    \/ SocketDbInsert
    \/ SocketDbError
    \/ SocketRelay

SpecRealtime == InitRealtime /\ [][NextRealtime]_vars


\* ===================================================================== claims
Ids == 1..Len(job)

Recorded(j) == proc[j].dispatched \ proc[j].pending

\* C1: for every job, in every reachable state, progress.completed +
\* progress.failed <= progress.total and results.length equals
\* progress.completed + progress.failed.
C1_ProgressMatchesResults ==
    \A j \in Ids :
        /\ job[j].progress.completed + job[j].progress.failed <= job[j].progress.total
        /\ Len(job[j].results) = job[j].progress.completed + job[j].progress.failed

\* a job of several URLs that was cancelled on the way and has every URL counted
C1_Witness ==
    \E j \in Ids :
        /\ job[j].progress.total >= 2
        /\ job[j].progress.completed + job[j].progress.failed = job[j].progress.total
        /\ proc[j].emitted.jobCancelled > 0

\* C2: once a job's status is completed, failed or cancelled, no later step
\* changes it; a job cancelled while processing is still cancelled after its
\* processing loop finished.
C2_TerminalStatusAbsorbing ==
    [][\A j \in Ids : job[j].status \in Terminal => job'[j].status = job[j].status]_vars

\* C3: once cancelJob succeeded on a job, no further URL of it is handed to
\* the processor: the set of dispatched positions stays what it was, whether
\* the cancellation came while a chunk was in flight or during the delay.
C3_NoDispatchAfterCancel ==
    [][\A j \in Ids :
          proc[j].emitted.jobCancelled > 0
              => proc'[j].dispatched = proc[j].dispatched]_vars

\* a job cancelled during the inter-chunk delay, with URLs not yet dispatched
C3_Witness ==
    \E j \in Ids :
        /\ proc[j].pc = "delay"
        /\ job[j].status = "cancelled"
        /\ Cardinality(proc[j].dispatched) < job[j].progress.total

\* C4: when the processor fails for a URL, the result of that URL is recorded
\* with status failed and the error message, progress.failed grows by one and
\* progress.completed does not; the job goes on.
C4_ProcessorFailureRecordedAsFailed ==
    [][\A j \in Ids :
          (ret'.op = "generateSchema" /\ ret'.jobId = j)
              => /\ Len(job'[j].results) = Len(job[j].results) + 1
                 /\ job'[j].results[Len(job'[j].results)].url = job[j].urls[ret'.arg]
                 /\ job'[j].results[Len(job'[j].results)].status = "failed"
                 /\ job'[j].results[Len(job'[j].results)].error = ret'.error
                 /\ job'[j].progress.failed = job[j].progress.failed + 1
                 /\ job'[j].progress.completed = job[j].progress.completed
                 /\ proc'[j].pc \in {"awaiting", "delay", "done"}
                 /\ (proc'[j].pc = "done" /\ proc'[j].emitted.jobCancelled = 0)
                       => proc'[j].dispatched = 1..job[j].progress.total]_vars

\* C5: when the processing loop of a job that was never cancelled has ended,
\* the status is failed if completed = 0 and failed > 0, and completed if
\* completed > 0; a job whose processor failed for every URL ends failed.
C5_FinalStatus ==
    \A j \in Ids :
        (proc[j].pc = "done" /\ proc[j].emitted.jobCancelled = 0)
            => /\ (job[j].progress.completed = 0 /\ job[j].progress.failed > 0)
                      => job[j].status = "failed"
               /\ job[j].progress.completed > 0 => job[j].status = "completed"
               /\ proc[j].extFailed = 1..job[j].progress.total => job[j].status = "failed"

\* the chunk (1-based) that holds position q when chunks have size n
ChunkOf(q, n) == ((q - 1) \div n) + 1

\* C6: no URL of chunk k+1 is dispatched until every URL of chunk k has its
\* outcome recorded in results.
C6_ChunkBarrier ==
    \A j \in Ids :
        /\ Len(job[j].results) = Cardinality(Recorded(j))
        /\ \A p \in proc[j].dispatched : \A q \in 1..job[j].progress.total :
              ChunkOf(q, job[j].options.maxConcurrency)
                    < ChunkOf(p, job[j].options.maxConcurrency)
                  => q \in Recorded(j)

\* the second chunk of a job is in flight
C6_Witness ==
    \E j \in Ids :
        /\ proc[j].batch >= 2
        /\ proc[j].pending # {}
        /\ job[j].options.maxConcurrency >= 2

CapacityError == "Server is at maximum capacity"

\* C7: startJob on a pending job while 5 jobs are in the active set fails
\* with the capacity error and changes nothing (the job stays pending with
\* startedAt unset, the active set is the same); the job can be started
\* later, once a slot is free.
C7_StartAtCapacityRefused ==
    [][/\ \A j \in jobs :
             (Cardinality(activeJobs) >= maxConcurrentJobs /\ job[j].status = "pending")
                 => /\ job'[j].status # "processing"
                    /\ job'[j].startedAt = Unset
                    /\ j \notin activeJobs'
                    /\ (ret'.op = "startJob" /\ ret'.jobId = j) => ret'.error = CapacityError
       /\ (ret'.op = "startJob" /\ ret'.error = CapacityError)
             => /\ Cardinality(activeJobs) >= maxConcurrentJobs
                /\ job' = job
                /\ activeJobs' = activeJobs
                /\ jobs' = jobs]_vars

\* a job that startJob once refused for capacity is processing
C7_Witness ==
    \E j \in Ids : proc[j].refused /\ job[j].status = "processing"

QuotaError == "Too many active jobs"

OpenJobs(userId, js, jb) ==
    {j \in js : jb[j].userId = userId /\ jb[j].status \in {"pending", "processing"}}

\* C8: createJob for a user who has 3 jobs in status pending or processing
\* fails and adds no job; every user owns at most 3 such jobs in every state.
C8_UserQuota ==
    [][\A u \in Users :
          /\ Cardinality(OpenJobs(u, jobs', job')) <= maxActiveUserJobs
          /\ Cardinality(OpenJobs(u, jobs, job)) >= maxActiveUserJobs
                => \A j \in (Len(job) + 1)..Len(job') : job'[j].userId # u
          /\ (ret'.op = "createJob" /\ ret'.userId = u /\ ret'.error = QuotaError)
                => /\ Cardinality(OpenJobs(u, jobs, job)) >= maxActiveUserJobs
                   /\ job' = job
                   /\ jobs' = jobs]_vars

\* createJob has just refused a user for the quota
C8_Witness ==
    /\ ret.op = "createJob"
    /\ ret.error = QuotaError
    /\ Cardinality(OpenJobs(ret.userId, jobs, job)) = maxActiveUserJobs

\* the outcome a caller sees in the message of the error cancelJob threw
CancelOutcome(error) ==
    CASE error = "" -> "Cancelled"
      [] error = "Job not found" -> "NotFound"
      [] error = "Unauthorized to cancel this job" -> "Unauthorized"
      [] error = "Cannot cancel a completed or failed job" -> "InvalidState"

\* C9: cancelJob fails with the not-found outcome when the job is absent or
\* owned by another user, and with the invalid-state outcome when the job is
\* completed, failed or cancelled; a failing call leaves the job, the active
\* set and the emitted events as they were.
C9_CancelFailures ==
    [][\A j \in JobIds, u \in Users :
          (ret'.op = "cancelJob" /\ ret'.jobId = j /\ ret'.userId = u)
              => LET absent   == j \notin jobs
                     foreign  == ~absent /\ job[j].userId # u
                     terminal == ~absent /\ ~foreign /\ job[j].status \in Terminal
                 IN /\ (absent \/ foreign) => CancelOutcome(ret'.error) = "NotFound"
                    /\ terminal => CancelOutcome(ret'.error) = "InvalidState"
                    /\ (absent \/ foreign \/ terminal)
                          => /\ job' = job
                             /\ activeJobs' = activeJobs
                             /\ proc' = proc]_vars

IsHttpUrl(url) == URL(url).ok /\ URL(url).protocol \in {<<"http", ":">>, <<"https", ":">>}

Kept(urls) == SelectSeq(urls, IsHttpUrl)

\* C10: createJob keeps exactly the input URLs that parse with scheme http
\* or https, in input order; it fails and stores no job when none or more
\* than 100 are kept, and for no other reason than these and the quota; a
\* job it stores has progress.total = the number of kept URLs and status
\* pending.
C10_CreateJobKeepsHttpUrls ==
    LET kept == Kept(request.urls)
    IN /\ \A j \in Ids :
             /\ job[j].urls = kept
             /\ job[j].progress.total = Len(kept)
             /\ job[j].status = "pending"
             /\ j \in jobs
       /\ (Len(kept) = 0 \/ Len(kept) > maxUrlsPerJob) => job = << >> /\ jobs = {}
       /\ ret.error = "No valid URLs provided" <=> (ret # NoCall /\ Len(kept) = 0)
       /\ ret.error = "Too many URLs" <=> (ret # NoCall /\ Len(kept) > maxUrlsPerJob)
       /\ ret.error = QuotaError => Len(job) = maxActiveUserJobs

\* a stored job whose list lost an entry of the request and kept two in order
C10_Witness ==
    /\ request.urls = <<UrlB, NotAUrl, UrlA>>
    /\ Len(job) >= 1
    /\ job[1].urls = <<UrlB, UrlA>>

\* C11: no URL occurs twice in the urls of a job that createJob stored,
\* whatever duplicates the submitted list contained.
C11_UrlsDeduplicated ==
    \A j \in Ids :
        \A p, q \in 1..Len(job[j].urls) :
            p # q => job[j].urls[p] # job[j].urls[q]

WasCancelled(j) == proc[j].emitted.jobCancelled > 0

Settled(jr) == jr.progress.completed + jr.progress.failed

\* C12 as stated: from the moment cancelJob succeeded on a job, its
\* progress.completed, progress.failed and progress.current never change.
C12_CancelFreezesProgress ==
    [][\A j \in Ids :
          WasCancelled(j)
              => /\ job'[j].progress.completed = job[j].progress.completed
                 /\ job'[j].progress.failed = job[j].progress.failed
                 /\ job'[j].progress.current = job[j].progress.current]_vars

\* C12 as amended: the three counters never decrease; once cancelJob
\* succeeded progress.current never changes, and completed and failed grow
\* only by the outcomes of the calls that were in flight, one per call that
\* settles, so they are frozen as soon as none is in flight.
C12_CancelFreezesAfterInFlight ==
    [][\A j \in Ids :
          /\ job'[j].progress.completed >= job[j].progress.completed
          /\ job'[j].progress.failed >= job[j].progress.failed
          /\ job'[j].progress.current >= job[j].progress.current
          /\ WasCancelled(j)
                => /\ job'[j].progress.current = job[j].progress.current
                   /\ proc'[j].pending \subseteq proc[j].pending
                   /\ Settled(job'[j]) - Settled(job[j])
                          = Cardinality(proc[j].pending \ proc'[j].pending)]_vars

\* a cancelled job counted an outcome after its cancellation, has no call in
\* flight any more and left URLs undispatched
C12_Witness ==
    \E j \in Ids :
        /\ WasCancelled(j)
        /\ proc[j].pending = {}
        /\ Settled(job[j]) >= 1
        /\ Cardinality(proc[j].dispatched) < job[j].progress.total
        /\ ret.op = "generateSchema"

Highest(S) == CHOOSE p \in S : \A q \in S : q <= p

\* C13: after the URL at 0-based position i was dispatched and no later one,
\* progress.current = i; so progress.current < progress.total in every state.
C13_CurrentIsHighestDispatched ==
    \A j \in Ids :
        /\ proc[j].dispatched # {}
              => job[j].progress.current = Highest(proc[j].dispatched) - 1
        /\ job[j].progress.current < job[j].progress.total


\* the document a read of the pair (p, u) returns from the collection states
Stored(states, p, u) ==
    LET M == {d \in states : d.projectID = p /\ d.ownerID = u}
    IN IF M = {} THEN NoState ELSE CHOOSE d \in M : \A e \in M : d.id <= e.id

\* handler h is waiting for its upsert and has it answered in this step
UpsertDone(h) ==
    /\ h.pc \in {"update", "insert"}
    /\ ~\E g \in handlers' : g.hid = h.hid /\ g.pc \in {"update", "insert"}

\* C14: every write of the autosave path (HTTP autosave or realtime
\* trigger-autosave) leaves the stored version of its (project, owner) state
\* one above what it was (0 for a state that did not exist), however the
\* writes interleave, and never moves lastSavedAt back.
C14_AutosaveIncrementsVersion ==
    [][\A h \in handlers :
          (h.kind \in {"autosave", "trigger"} /\ UpsertDone(h))
              => LET before == Stored(autosaveStates, h.projectId, h.userId)
                     after  == Stored(autosaveStates', h.projectId, h.userId)
                 IN /\ after.version = before.version + 1
                    /\ after.lastSavedAt >= before.lastSavedAt]_vars

\* C15: the stored version after any write to a (project, owner) state,
\* manual save or autosave, is strictly greater than the one before it.
C15_VersionStrictlyIncreasing ==
    [][\A h \in handlers :
          UpsertDone(h)
              => Stored(autosaveStates', h.projectId, h.userId).version
                     > Stored(autosaveStates, h.projectId, h.userId).version]_vars

\* C16: recover answers not-found when the pair has no state, stale (and no
\* draft content) when the state was last saved more than 24 hours ago, and
\* the draft content only for an existing state that is not stale; it never
\* changes what is stored.
C16_RecoverOutcomes ==
    [][res'.op = "recover"
          => LET doc == Stored(autosaveStates, res'.userId, res'.projectId)
                 found == Stored(autosaveStates, res'.projectId, res'.userId)
             IN /\ autosaveStates' = autosaveStates
                /\ project' = project
                /\ found = NoState
                      => res'.status = 404 /\ res'.draftContent = NoContent
                /\ (found # NoState /\ now - found.lastSavedAt > staleAfterHours)
                      => res'.status = 410 /\ res'.draftContent = NoContent
                /\ (found # NoState /\ now - found.lastSavedAt <= staleAfterHours)
                      => res'.status = 200 /\ res'.draftContent = found.draftContent
                /\ res'.draftContent # NoContent
                      => found # NoState /\ now - found.lastSavedAt <= staleAfterHours]_vars

\* recover has just refused a state that exists and is stale
C16_Witness ==
    /\ res.op = "recover"
    /\ res.status = 410
    /\ Stored(autosaveStates, res.projectId, res.userId) # NoState

\* C17: no (project, owner) pair has two AutosaveState records, also after
\* concurrent upserts for a pair that had none.
C17_OneStatePerPair ==
    \A p \in Projects, u \in Users :
        Cardinality({d \in autosaveStates : d.projectID = p /\ d.ownerID = u}) <= 1

\* C18: every AutosaveState that exists after a write has a recoveryToken,
\* and the token of a state is the same after every later write.
C18_RecoveryTokenStable ==
    [][\A d \in autosaveStates' :
          /\ d.recoveryToken # NoToken
          /\ \A e \in autosaveStates :
                e.id = d.id => e.recoveryToken = d.recoveryToken]_vars


\* ---------------------------------------------------------------- C19, C20
Entries(history) == {history[i] : i \in 1..Len(history)}

\* no element of the sequence occurs twice
Distinct(seq) == Cardinality({seq[i] : i \in 1..Len(seq)}) = Len(seq)

\* C19: the first version of an empty history is 1 and every addDraftVersion
\* assigns the highest version of the history plus one; after any sequence of
\* manual saves (addDraftVersion and a persisted save, cap eviction included),
\* restores and taggings, the version numbers of draftHistory are pairwise
\* distinct and no number assigned in the project is assigned a second time.
C19_VersionNumbersNeverReused ==
    [][\A p \in Projects :
          /\ Cardinality(Versions(project'[p].draftHistory)) = Len(project'[p].draftHistory)
          /\ Distinct(assigned'[p])
          /\ assigned'[p] # assigned[p] =>
                /\ Len(assigned'[p]) = Len(assigned[p]) + 1
                /\ assigned'[p][Len(assigned'[p])] =
                      IF project[p].draftHistory = << >> THEN 1
                      ELSE Max(Versions(project[p].draftHistory)) + 1]_vars

\* the cap evicted twice, a version was tagged and an older one restored
C19_Witness ==
    \E p \in Projects :
        /\ Len(assigned[p]) = maxDraftHistory + 2
        /\ Len(project[p].draftHistory) = maxDraftHistory
        /\ Versions(project[p].draftHistory) = 3..(maxDraftHistory + 2)
        /\ \E i \in 1..maxDraftHistory : project[p].draftHistory[i].tags # <<"auto">>
        /\ project[p].currentDraft.version = maxDraftHistory + 1

EntryOf(history, version) == history[FindVersion(history, version)]

\* C21: a restore of version M that is not in the history of the caller's
\* project is refused (restoreDraftVersion returns false, the route answers
\* 404) and leaves currentDraft and draftHistory as they were; a restore of a
\* version that is there sets currentDraft.content to that version's content
\* and leaves draftHistory untouched, newer versions included.
C21_RestoreFrame ==
    [][\A u \in Users, p \in Projects : \A M \in VersionInputs(p) :
          (res'.op = "restore" /\ Restore(u, p, M)) =>
              IF project[p].ownerID = u /\ M \in Versions(project[p].draftHistory)
              THEN /\ restoreDraftVersion(project[p], M, now).ok
                   /\ res'.status = 200
                   /\ project'[p].currentDraft.content =
                         EntryOf(project[p].draftHistory, M).content
                   /\ project'[p].currentDraft.version = M
                   /\ project'[p].draftHistory = project[p].draftHistory
              ELSE /\ ~restoreDraftVersion(project[p], M, now).ok \/ project[p].ownerID # u
                   /\ res'.status = 404
                   /\ project'[p].currentDraft = project[p].currentDraft
                   /\ project'[p].draftHistory = project[p].draftHistory]_vars

\* an older version was restored while newer ones with other content exist
C21_Witness ==
    \E p \in Projects :
        /\ res.op = "restore" /\ res.status = 200
        /\ Len(project[p].draftHistory) = maxDraftHistory
        /\ \E i \in 1..Len(project[p].draftHistory) :
              /\ project[p].draftHistory[i].version > project[p].currentDraft.version
              /\ project[p].draftHistory[i].content # project[p].currentDraft.content

\* ---------------------------------------------------------------------- C22
Elements(seq) == {seq[i] : i \in 1..Len(seq)}

TagsOf(doc, version) == EntryOf(doc.draftHistory, version).tags

WriteOps == {"save", "autosave", "trigger"}

\* C23: every successful write (manual save, HTTP autosave, trigger-autosave)
\* appends a version to the draft history of its project: the step that
\* answers it, or one before it in the same handler, made the history longer.
C23_EveryWriteAppendsVersion ==
    [][\A p \in Projects :
          (res'.op \in WriteOps /\ res'.status = 200 /\ res'.projectId = p) =>
              Len(project'[p].draftHistory) = Len(project[p].draftHistory) + 1]_vars

\* the number k of the write handler that sent the content ContentOf(k)
ContentIndex(c) == CHOOSE k \in 1..Cardinality(Contents) : ContentOf(k) = c

\* C24: a write that was started before another one was applied is based on
\* an outdated state and must not replace what that one stored; in
\* particular the content stored by a later-started write is never replaced
\* by that of an earlier-started one.
C24_NoSilentOverwrite ==
    [][\A d \in autosaveStates, e \in autosaveStates' :
          (d.id = e.id /\ d.draftContent # e.draftContent) =>
              ContentIndex(e.draftContent) > ContentIndex(d.draftContent)]_vars

\* ---------------------------------------------------------------------- C30
\* C30: at any time the processor calls in flight for a job are at most the
\* job's options.maxConcurrency.
C30_BoundedConcurrency ==
    \A j \in Ids : Cardinality(proc[j].pending) <= job[j].options.maxConcurrency

\* a job has as many calls in flight as its maxConcurrency allows, more than
\* one, and URLs still waiting for a later chunk
C30_Witness ==
    \E j \in Ids :
        /\ Cardinality(proc[j].pending) = job[j].options.maxConcurrency
        /\ job[j].options.maxConcurrency >= 2
        /\ Cardinality(proc[j].dispatched) < job[j].progress.total

\* ---------------------------------------------------------------- C28, C29
\* C28: the fifth failed login in a row on an account locks it for two
\* hours, and a login on a locked account is never answered as a success.
C28_LockoutAfterFiveFailures ==
    [][\A e \in Emails :
          /\ (failures[e] = maxLoginAttempts - 1 /\ failures'[e] = maxLoginAttempts) =>
                /\ users'[e].lockoutUntil = clock + lockoutMinutes
                /\ isLocked(users'[e], clock')
          /\ (isLocked(users[e], clock) /\ authRes'.op = "login" /\ authRes'.email = e) =>
                authRes'.status # 200]_vars

\* C29: the user registered into an empty user store gets role admin, every
\* user registered afterwards gets role user.
C29_FirstUserIsAdmin ==
    [][\A e \in Emails :
          (users[e] = NoUser /\ users'[e] # NoUser) =>
              users'[e].role = IF userCount = 0 THEN "admin" ELSE "user"]_vars

\* ----------------------------------------------------------- C25, C26, C27
\* the handler sh has run to its end in this step
Completed(sh) == \A t \in sockHandlers' : t.h.hid # sh.h.hid

\* C25: a connection enters room project:P only through a join-project for a
\* project that exists and is owned by the connection's user; a join-project
\* for any other id is answered with an error event and leaves the rooms and
\* the joined project of the connection as they were.
C25_JoinAuthorized ==
    [][/\ \A c \in Conns : \A p \in socket'[c].rooms \ socket[c].rooms :
             p \in DOMAIN project /\ project[p].ownerID = socket[c].user
       /\ \A sh \in sockHandlers :
             (sh.event = "join-project" /\ Completed(sh)) =>
                 IF sh.projectId \in DOMAIN project
                      /\ project[sh.projectId].ownerID = socket[sh.conn].user
                 THEN /\ sh.projectId \in socket'[sh.conn].rooms
                      /\ socket'[sh.conn].projectId = sh.projectId
                 ELSE /\ socket' = socket
                      /\ socket[sh.conn].connected =>
                            emitted' = <<Message(sh.conn, "error", sh.projectId, 0)>>]_vars

\* a join-project for a project of another user was answered with the error
\* event by a connection that stays in the room it had joined before
C25_Witness ==
    \E c \in Conns :
        /\ emitted = <<Message(c, "error", "p3", 0)>>
        /\ socket[c].user = "u1"
        /\ socket[c].rooms = {"p1"}
        /\ socket[c].projectId = "p1"

\* C26: a connection is in at most one project room, the one of the project
\* it joined last.
C26_AtMostOneRoom ==
    \A c \in Conns : socket[c].rooms \subseteq {socket[c].projectId}

\* C27: the trigger-autosave events of one connection are applied to the
\* store, and acknowledged, in the order they arrived: a write never
\* completes while an earlier one of the same connection is still to be
\* applied.
C27_ArrivalOrder ==
    [][\A sh \in sockHandlers :
          (sh.event = "trigger-autosave" /\ Completed(sh)) =>
              \A t \in sockHandlers :
                  (t.conn = sh.conn /\ t.event = "trigger-autosave") =>
                      t.h.hid >= sh.h.hid]_vars

\* ---------------------------------------------------------------- C31, C32
\* the jobs whose processing loop has per-URL calls in flight
InFlightJobs == {j \in Ids : proc[j].pc \notin {"none", "done"} /\ proc[j].pending # {}}

\* C31: in every reachable state at most 5 jobs are executing, that is, have
\* started their processing loop and still have per-URL calls in flight.
C31_AtMostFiveExecuting == Cardinality(InFlightJobs) <= maxConcurrentJobs

\* C32: every call that was dispatched has its outcome appended to results
\* and counted in progress in the step in which it returns, also when the job
\* was cancelled in between; no call in flight is dropped.
C32_DispatchedWorkSurvivesCancel ==
    [][\A j \in Ids : \A pos \in proc[j].pending \ proc'[j].pending :
          /\ Len(job'[j].results) = Len(job[j].results) + 1
          /\ SubSeq(job'[j].results, 1, Len(job[j].results)) = job[j].results
          /\ job'[j].results[Len(job'[j].results)].url = job[j].urls[pos]
          /\ Settled(job'[j]) = Settled(job[j]) + 1]_vars

\* a job that was cancelled has just gained the result of a call that was in
\* flight
C32_Witness ==
    \E j \in Ids :
        /\ WasCancelled(j)
        /\ ret.op = "generateSchema"
        /\ ret.jobId = j
        /\ job[j].results # << >>
        /\ job[j].results[Len(job[j].results)].url = job[j].urls[ret.arg]

\* ---------------------------------------------------------------------- C33
\* the position in job.urls of a URL of the job
PositionOf(jr, url) == CHOOSE q \in 1..Len(jr.urls) : jr.urls[q] = url

\* C33: results grows only at its end, by the outcome of the call that has
\* just returned (completion order); when the loop of a job that was never
\* cancelled has finished, results holds exactly one entry for each URL of
\* the job, completed + failed = total, and no entry of a later chunk
\* precedes an entry of an earlier chunk.
C33_OneResultPerUrl ==
    [][\A j \in Ids :
          /\ job'[j].results # job[j].results
                => /\ Len(job'[j].results) = Len(job[j].results) + 1
                   /\ SubSeq(job'[j].results, 1, Len(job[j].results)) = job[j].results
                   /\ \E pos \in proc[j].pending \ proc'[j].pending :
                         job'[j].results[Len(job'[j].results)].url = job[j].urls[pos]
          /\ (proc'[j].pc = "done" /\ proc'[j].emitted.jobCancelled = 0)
                => LET jr == job'[j]
                       n == jr.options.maxConcurrency
                   IN /\ Len(jr.results) = Len(jr.urls)
                      /\ \A q \in 1..Len(jr.urls) :
                            Cardinality({i \in 1..Len(jr.results) :
                                            jr.results[i].url = jr.urls[q]}) = 1
                      /\ jr.progress.completed + jr.progress.failed = jr.progress.total
                      /\ \A i, k \in 1..Len(jr.results) :
                            i < k => ChunkOf(PositionOf(jr, jr.results[i].url), n)
                                        <= ChunkOf(PositionOf(jr, jr.results[k].url), n)]_vars

\* a job of two chunks that was never cancelled has finished, the results of
\* its first chunk in another order than the URLs
C33_Witness ==
    \E j \in Ids :
        /\ proc[j].pc = "done"
        /\ proc[j].emitted.jobCancelled = 0
        /\ Len(batches(job[j])) >= 2
        /\ job[j].options.maxConcurrency = 2
        /\ job[j].results[1].url = job[j].urls[2]

\* ---------------------------------------------------------------------- C38
\* C38: a job is in the active set if and only if its status is processing,
\* and every job of the active set is still in the job map: the cleanup
\* never removes one.
C38_ActiveIffProcessing ==
    /\ activeJobs = {j \in Ids : job[j].status = "processing"}
    /\ activeJobs \subseteq jobs

\* the clock has passed the retention of a job that is still processing, and
\* the job is in the map and in the active set
C38_Witness ==
    \E j \in Ids :
        /\ job[j].createdAt < cutoffDate
        /\ job[j].status = "processing"
        /\ proc[j].batch >= 2
        /\ j \in jobs /\ j \in activeJobs

\* ---------------------------------------------------------------------- C34
\* C34: provided every call of the processor returns and every delay ends,
\* a job that startJob moved to processing eventually has a terminal status,
\* a completedAt and no entry in the active set, and its processing loop
\* has come to its end.
C34_StartedJobsFinish ==
    \A j \in JobIds :
        (j \in Ids /\ job[j].status = "processing")
            ~> (/\ j \in Ids
                /\ job[j].status \in Terminal
                /\ job[j].completedAt # Unset
                /\ j \notin activeJobs
                /\ proc[j].pc = "done")

\* a job of several chunks that was never cancelled has finished and left
\* the active set
C34_Witness ==
    \E j \in Ids :
        /\ proc[j].pc = "done"
        /\ proc[j].batch >= 2
        /\ proc[j].emitted.jobCancelled = 0
        /\ job[j].status \in Terminal
        /\ job[j].completedAt # Unset
        /\ j \notin activeJobs

\* ---------------------------------------------------------------- C35, C40
\* the connections other than c that are connected members of room project:p
OtherMembers(c, p) ==
    {d \in Conns \ {c} : socket'[d].connected /\ p \in socket'[d].rooms}

\* the receivers of the messages of one event among those just emitted
Receivers(event) ==
    {emitted'[i].to : i \in {k \in 1..Len(emitted') : emitted'[k].event = event}}

\* C35: a step of a trigger-autosave handler that does not end it (its
\* upsert found no document and goes on to insert) emits nothing.  When the write succeeded, the stored document carries the
\* content and the writer (if still connected) is sent autosave-complete
\* with the stored version first, then collaborator-saved goes to every
\* other connected member of the project room, once each, and not to the
\* writer.  When the write failed, nothing is stored, the writer is sent
\* autosave-complete without a version and no collaborator-saved is sent.
C35_SaveTriggerProtocol ==
    [][\A sh \in sockHandlers :
          sh.event = "trigger-autosave" =>
              IF ~Completed(sh)
              THEN sh \notin sockHandlers' => emitted' = << >>
              ELSE LET c == sh.conn
                       p == sh.projectId
                       written == {d \in autosaveStates' \ autosaveStates :
                                      /\ d.projectID = p
                                      /\ d.ownerID = sh.h.userId
                                      /\ d.draftContent = sh.h.draftContent}
                       ack == IF socket[c].connected THEN 1 ELSE 0
                   IN IF autosaveStates' # autosaveStates
                      THEN /\ Cardinality(written) = 1
                           /\ \A d \in written :
                                 /\ d.version >= 1
                                 /\ socket[c].connected
                                       => emitted'[1] = Message(c, "autosave-complete",
                                                                p, d.version)
                           /\ Len(emitted') = ack + Cardinality(OtherMembers(c, p))
                           /\ Receivers("collaborator-saved") = OtherMembers(c, p)
                           /\ \A i \in (ack + 1)..Len(emitted') :
                                 emitted'[i].event = "collaborator-saved"
                      ELSE /\ emitted' = IF socket[c].connected
                                         THEN <<Message(c, "autosave-complete", p, Absent)>>
                                         ELSE << >>]_vars

\* the writer was acknowledged with version 2 and the other member of the
\* room was notified
C35_Witness ==
    \E c, d \in Conns :
        /\ c # d
        /\ emitted = <<Message(c, "autosave-complete", "p1", 2),
                       Message(d, "collaborator-saved", "p1", 0)>>
        /\ "p1" \in socket[d].rooms

\* C40: an event is relayed to the members of room project:P only on behalf
\* of a connection that is itself a member of P: the writer of a
\* trigger-autosave that notifies the room, and the sender of an
\* autosave-status, cursor-move or text-select, have joined P.
C40_RoomIsolation ==
    [][/\ \A sh \in sockHandlers :
             (/\ sh.event = "trigger-autosave"
              /\ Completed(sh)
              /\ Receivers("collaborator-saved") # {})
                 => sh.projectId \in socket[sh.conn].rooms
       /\ \A c \in Conns, e \in RelayEvents, p \in ProjectIdInputs :
             (emitted' # << >> /\ emitted'[1].event = e /\ Relay(c, e, p))
                 => p \in socket[c].rooms]_vars

\* ---------------------------------------------------------------- C37, C39
\* C37: however manual saves of one project interleave, the snapshots in its
\* draftHistory carry pairwise distinct version numbers, and every save that
\* was answered 200 has its snapshot in the history.
C37_ConcurrentSavesDistinctVersions ==
    /\ \A p \in Projects :
          Cardinality(Versions(project[p].draftHistory)) = Len(project[p].draftHistory)
    /\ (res.op = "save" /\ res.status = 200)
          => \E e \in Entries(project[res.projectId].draftHistory) :
                e = project[res.projectId].currentDraft

\* C39: a manual save whose project lookup found nothing (answered 404)
\* writes nothing: no step of its handler creates or modifies an
\* AutosaveState or changes a project.
C39_NotFoundSaveChangesNothing ==
    [][\A h \in handlers :
          (h.kind = "save" /\ h.loaded = NoProject /\ h \notin handlers')
              => /\ autosaveStates' = autosaveStates
                 /\ project' = project]_vars

\* ---------------------------------------------------------------------- C36
\* the createdAt values of the entries of a history
CreatedAts(history) == {history[i].createdAt : i \in 1..Len(history)}

\* C36: the statistics of a document report as oldestVersion the smallest
\* createdAt of its draftHistory and as newestVersion the largest, and
\* totalVersions = autoVersions + manualVersions = the length of the history.
C36_StatsTrueExtremes ==
    res.op = "stats"
        => LET history == project[res.projectId].draftHistory
               stats == res.stats
           IN /\ stats.totalVersions = Len(history)
              /\ stats.totalVersions = stats.autoVersions + stats.manualVersions
              /\ history # << >>
                    => /\ \A t \in CreatedAts(history) :
                             stats.oldestVersion <= t /\ t <= stats.newestVersion
                       /\ stats.oldestVersion \in CreatedAts(history)
                       /\ stats.newestVersion \in CreatedAts(history)

=============================================================================
